---- MODULE Spec2Model ----
(***************************************************************************)
(* A model of the LoRa / ESP32 link bridge of src/src/lora_service.py:     *)
(* the serial reader thread, the command handler and image transfer it     *)
(* runs, the three forwarder threads, the /send endpoint and the ESP32     *)
(* WiFi auto-connect thread, with the module-level state they share.       *)
(*                                                                         *)
(* Strings of the program are sequences of tokens: "TEL:" in line is       *)
(* Contains(line, "TEL:"), line.startswith("CMD:") is StartsWith.          *)
(* A step of a thread is one action; a thread's position is pc[thread].    *)
(***************************************************************************)
EXTENDS Naturals, Integers, Sequences, FiniteSets, TLC

(***************************************************************************)
(* Program constants                                                       *)
(***************************************************************************)
\* _MAX_MSG = 1000
_MAX_MSG == 1000
\* IMG_CHUNK_BYTES = 100
IMG_CHUNK_BYTES == 100
\* "< 255 LoRa limit": the link's maximum payload, in bytes
LORA_MAX_PAYLOAD == 255

(***************************************************************************)
(* Bounds of the model                                                     *)
(***************************************************************************)
\* operations (lines read, forwarder cycles, /send requests) started in a run
MaxOps == 2
\* largest compressed thumbnail, in bytes, of the image-transfer runs
MaxImgLen == 205
\* tracks in one /tracks snapshot
MaxTracks == 2

VARIABLES
    _connected,          \* module global _connected
    _serial_port,        \* module global _serial_port: "None" or "open"
    _messages,           \* module global _messages
    _esp_ap_ssid,        \* module global _esp_ap_ssid
    _esp_ap_password,    \* module global _esp_ap_password
    _esp_wifi_connected, \* module global _esp_wifi_connected
    _esp_wifi_ip,        \* module global _esp_wifi_ip
    _esp_wifi_ssid,      \* module global _esp_wifi_ssid
    pc,                  \* position of every thread / request handler
    msg,                 \* _serial_loop: the msg dict of the line in hand
    img,                 \* _send_track_image: data length, c, total_chunks
    out,                 \* the line each thread is handing to _serial_port.write
    tracks,              \* _detection_forward_loop: tracks still to send
    cached_gps,          \* _detection_forward_loop: cached_gps
    wifi,                \* _esp_wifi_connect_loop: target, password, result, ip, last_wifi_send
    device,              \* the serial device: "absent", "ok", "failed"
    wlan0,               \* the network wlan0 is associated with ("" for none)
    nm,                  \* how association attempts end now: "ok", "noip", "fail"
    wire,                \* the pieces most recently put on the serial wire
    chunks,              \* IMG lines written by the image transfer in progress
    calls,               \* collaborator requests made for the command in hand
    enc,                 \* the record last encoded to a wire line, and the line
    _lock,               \* module global _lock: "free", or the thread or handler holding it
    reply,               \* the JSON response of the REST query answered last
    ws,                  \* ws_endpoint: last_idx, new_msgs, connected; all it sent
    ops                  \* operations started so far (bounded by MaxOps)

vars == <<_connected, _serial_port, _messages, _esp_ap_ssid, _esp_ap_password,
          _esp_wifi_connected, _esp_wifi_ip, _esp_wifi_ssid, pc, msg, img, out,
          tracks, cached_gps, wifi, device, wlan0, nm, wire, chunks, calls, enc, _lock, reply,
          ws, ops>>

\* the threads of lifespan(), and the handlers of the event loop: POST /send, the
\* GET queries, the WebSocket endpoint
Threads == {"reader", "tel", "det", "sts", "send", "wifi", "rest", "ws"}

(***************************************************************************)
(* Strings                                                                 *)
(***************************************************************************)
\* sub in s
Contains(s, tok) == \E i \in 1..Len(s) : s[i] = tok

\* s.startswith(tok)
StartsWith(s, tok) == Len(s) >= 1 /\ s[1] = tok

\* s[n:]
Drop(s, n) == IF n >= Len(s) THEN <<>> ELSE SubSeq(s, n + 1, Len(s))

\* len(str(n)) for n >= 0
RECURSIVE Digits(_)
Digits(n) == IF n < 10 THEN 1 ELSE 1 + Digits(n \div 10)

\* s.split(sep): the fields between the separators
RECURSIVE SplitOn(_, _)
SplitOn(s, sep) ==
    IF ~Contains(s, sep) THEN <<s>>
    ELSE LET i == CHOOSE k \in 1..Len(s) :
                     s[k] = sep /\ \A j \in 1..(k - 1) : s[j] # sep
         IN  <<SubSeq(s, 1, i - 1)>> \o SplitOn(Drop(s, i), sep)

\* tokens int() accepts, with their values
IntTokens == {"0", "7", "12", "640"}
IntValue(tok) ==
    CASE tok = "0" -> 0 [] tok = "7" -> 7 [] tok = "12" -> 12 [] tok = "640" -> 640

\* tokens float() accepts
FloatTokens == IntTokens \cup {"0.5"}

(***************************************************************************)
(* Numbers as the f-strings print them: v is the value times 10^d          *)
(***************************************************************************)
RECURSIVE Pow10(_)
Pow10(d) == IF d = 0 THEN 1 ELSE 10 * Pow10(d - 1)

Abs(v) == IF v < 0 THEN 0 - v ELSE v

\* len(f"{x:.{d}f}")
FixedLen(v, d) == (IF v < 0 THEN 1 ELSE 0) + Digits(Abs(v) \div Pow10(d)) + 1 + d

\* len(str(n)) for any int n
IntLen(n) == (IF n < 0 THEN 1 ELSE 0) + Digits(Abs(n))

\* cached_gps = {"lat": 0.0, "lon": 0.0, "alt": 0.0}; lat and lon in 1e-6, alt in 0.1
GpsZero == [lat |-> 0, lon |-> 0, alt |-> 0]
GpsFix == [lat |-> 47123456, lon |-> 8123456, alt |-> 4123]

(***************************************************************************)
(* The message log                                                         *)
(***************************************************************************)
NoMsg == [direction |-> "none", data |-> <<>>, type |-> "none", rssi |-> "none"]

\* a tx entry: {"direction": "tx", "data": ..., "type": ...}
TxEntry(data, type) == [direction |-> "tx", data |-> data, type |-> type, rssi |-> "none"]

\* _serial_loop: _messages.append(msg); if len(_messages) > _MAX_MSG: del _messages[: _MAX_MSG // 2]
AppendRx(log, m) ==
    LET l == Append(log, m)
    IN  IF Len(l) > _MAX_MSG THEN Drop(l, _MAX_MSG \div 2) ELSE l

\* the forwarders and /send: _messages.append({...})
AppendTx(log, m) == Append(log, m)

(***************************************************************************)
(* Lines received from the ESP32                                           *)
(***************************************************************************)
LineGeneric == <<"hello">>
LineTelEcho == <<"TEL:", "47.1">>
LineRecStart == <<"CMD:", "REC_START">>
LineGetImg == <<"CMD:", "GET_IMG:", "7">>
LineGetImgBad == <<"CMD:", "GET_IMG:", "x">>
LineUnknown == <<"CMD:", "FOO_BAR">>
LineAp1 == <<"AP:", "esp1", ",", "pw1">>
LineAp2 == <<"AP:", "esp2", ",", "pw2">>
LineApBad == <<"AP:", "esp3">>

\* rssi_val = int(line.split("RSSI:")[-1].strip().split()[0]), "none" when absent or not a number
ParseRssi(line) ==
    IF ~Contains(line, "RSSI:") THEN "none"
    ELSE LET fields == SplitOn(line, "RSSI:")
             last == fields[Len(fields)]
         IN  IF Len(last) >= 1 /\ last[1] \in IntTokens THEN last[1] ELSE "none"

\* a classifier that looks at the prefixes before the telemetry marker
ClassifyPrefixFirst(line) ==
    IF StartsWith(line, "CMD:") THEN "command"
    ELSE IF StartsWith(line, "AP:") THEN "ap_info"
    ELSE IF Contains(line, "TEL:") THEN "telemetry_rx"
    ELSE "generic"

\* the type tag of a received line; a line with no tag is "generic"
Classify(line) ==
    IF Contains(line, "TEL:") THEN "telemetry_rx"
    ELSE IF StartsWith(line, "CMD:") THEN "command"
    ELSE IF StartsWith(line, "AP:") THEN "ap_info"
    ELSE "generic"

\* msg = {"direction": "rx", "data": line, "ts": ts} with its rssi and type
RxMsg(line) ==
    [direction |-> "rx", data |-> line, type |-> Classify(line), rssi |-> ParseRssi(line)]

\* cmd = line[4:].strip()
CmdOf(line) == Drop(line, 1)

\* parts = line[3:].split(",")
ApParts(line) == SplitOn(Drop(line, 1), ",")

(***************************************************************************)
(* Lines handed to the serial port                                         *)
(***************************************************************************)
NoLine == [kind |-> "none", body |-> <<>>, len |-> 0]

\* the pieces a write puts on the wire
Piece(t, part) == [src |-> t, part |-> part]

\* the wire keeps the two most recent pieces
PutOnWire(w, p) == IF Len(w) < 2 THEN Append(w, p) ELSE <<w[2], p>>

(***************************************************************************)
(* The thumbnail and its IMG lines                                         *)
(***************************************************************************)
\* data = buf.tobytes(): the compressed thumbnail, n bytes of it
ImageData(n) == [i \in 1..n |-> (i * 37 + 11) % 256]

HexDigits == <<"0", "1", "2", "3", "4", "5", "6", "7", "8", "9", "A", "B", "C", "D", "E", "F">>

\* bytes.hex().upper(): two digits for every byte, the high one first
Hex(bytes) ==
    [i \in 1..(2 * Len(bytes)) |->
        IF i % 2 = 1 THEN HexDigits[(bytes[(i + 1) \div 2] \div 16) + 1]
        ELSE HexDigits[(bytes[i \div 2] % 16) + 1]]

\* a chunk count that rounds down
TotalChunksFloor(n) == n \div IMG_CHUNK_BYTES

\* total_chunks = (len(data) + IMG_CHUNK_BYTES - 1) // IMG_CHUNK_BYTES
TotalChunks(n) == (n + IMG_CHUNK_BYTES - 1) \div IMG_CHUNK_BYTES

\* min(a, b)
Min(a, b) == IF a < b THEN a ELSE b

\* data[start:end]
Slice(data, start, end) == SubSeq(data, start + 1, end)

\* a chunk loop that cuts slices of twice the chunk size
ImgLineWide(c, total, data) ==
    LET start == c * IMG_CHUNK_BYTES
        end == Min(start + 2 * IMG_CHUNK_BYTES, Len(data))
        hex_data == Hex(Slice(data, start, end))
    IN  [kind |-> "IMG",
         body |-> <<c, total, hex_data>>,
         len |-> 4 + Digits(c) + 1 + Digits(total) + 1 + Len(hex_data) + 1]

\* line = f"IMG:{c}:{total_chunks}:{hex_data}\n" for chunk c of data
ImgLine(c, total, data) ==
    LET start == c * IMG_CHUNK_BYTES
        end == Min(start + IMG_CHUNK_BYTES, Len(data))
        hex_data == Hex(Slice(data, start, end))
    IN  [kind |-> "IMG",
         body |-> <<c, total, hex_data>>,
         len |-> 4 + Digits(c) + 1 + Digits(total) + 1 + Len(hex_data) + 1]

\* the locals of _esp_wifi_connect_loop at its start: no target, no result, and
\* last_wifi_send = 0.0, which is more than 30 s ago (age is in seconds, up to 31);
\* running counts the nmcli connect children that have not exited
NoWifi ==
    [target |-> <<>>, password |-> <<>>, rc |-> -1, ip |-> <<>>, site |-> "none",
     nap |-> 0, age |-> 31, running |-> 0]

\* nothing encoded yet
NoEnc == [kind |-> "none", rec |-> <<>>, line |-> <<>>]

\* no REST query answered yet
NoReply == [kind |-> "none", body |-> <<>>]

\* the locals of ws_endpoint before a client is accepted
NoWs == [last_idx |-> 0, new_msgs |-> <<>>, connected |-> FALSE, pushed |-> <<>>]

\* the locals of _send_track_image outside a transfer
NoImg == [len |-> 0, c |-> 0, total_chunks |-> 0]

(***************************************************************************)
(* Initial state: the module as loaded, the threads of lifespan() started  *)
(***************************************************************************)
Init ==
    /\ _connected = FALSE
    /\ _serial_port = "None"
    /\ _messages = <<>>
    /\ _esp_ap_ssid = <<>>
    /\ _esp_ap_password = <<>>
    /\ _esp_wifi_connected = FALSE
    /\ _esp_wifi_ip = <<>>
    /\ _esp_wifi_ssid = <<>>
    /\ pc = [t \in Threads |->
               CASE t = "reader" -> "open"
                 [] t = "send" -> "idle"
                 [] t = "rest" -> "idle"
                 [] t = "ws" -> "closed"
                 [] t = "wifi" -> "top"
                 [] OTHER -> "sleep"]
    /\ msg = NoMsg
    /\ img = NoImg
    /\ out = [t \in Threads |-> NoLine]
    /\ tracks = <<>>
    /\ cached_gps = GpsZero
    /\ wifi = NoWifi
    /\ device = "absent"
    /\ wlan0 = <<>>
    /\ nm = "ok"
    /\ wire = <<>>
    /\ chunks = <<>>
    /\ calls = <<>>
    /\ enc = NoEnc
    /\ _lock = "free"
    /\ reply = NoReply
    /\ ws = NoWs
    /\ ops = 0

Goto(t, label) == pc' = [pc EXCEPT ![t] = label]

\* a with-block that leaves the lock held on exit
WithLockKept(t) == _lock \in {"free", t} /\ _lock' = t

\* "with _lock:" around a block that only touches memory: the block runs with the
\* lock held by t, taken on entry (in the same step when it is free, or in a step
\* of its own before, LockAcquire), and the lock is released on exit
WithLock(t) == _lock \in {"free", t} /\ _lock' = "free"

\* the handlers of POST /send, of the GET queries and of the WebSocket are coroutines
\* of one event loop: h runs only while every other one is done or at an await
LoopFree(h) ==
    \A other \in {"send", "rest", "ws"} \ {h} :
        pc[other] \in {"idle", "closed", "send_json", "ws_sleep"}

(***************************************************************************)
(* The serial device                                                       *)
(***************************************************************************)
\* the device appears
DevicePlug ==
    /\ device = "absent"
    /\ device' = "ok"
    /\ UNCHANGED <<_lock, reply, ws, enc, _connected, _serial_port, _messages, _esp_ap_ssid, _esp_ap_password,
                   _esp_wifi_connected, _esp_wifi_ip, _esp_wifi_ssid, pc, msg, img, out,
                   tracks, cached_gps, wifi, wlan0, nm, wire, chunks, calls, ops>>

\* I/O on the device starts to fail (unplugged, I/O error)
DeviceFail ==
    /\ device = "ok"
    /\ device' = "failed"
    /\ UNCHANGED <<_lock, reply, ws, enc, _connected, _serial_port, _messages, _esp_ap_ssid, _esp_ap_password,
                   _esp_wifi_connected, _esp_wifi_ip, _esp_wifi_ssid, pc, msg, img, out,
                   tracks, cached_gps, wifi, wlan0, nm, wire, chunks, calls, ops>>

\* I/O on the device works again
DeviceRecover ==
    /\ device = "failed"
    /\ device' = "ok"
    /\ UNCHANGED <<_lock, reply, ws, enc, _connected, _serial_port, _messages, _esp_ap_ssid, _esp_ap_password,
                   _esp_wifi_connected, _esp_wifi_ip, _esp_wifi_ssid, pc, msg, img, out,
                   tracks, cached_gps, wifi, wlan0, nm, wire, chunks, calls, ops>>

(***************************************************************************)
(* _serial_loop                                                            *)
(***************************************************************************)
\* serial.Serial(DEVICE, BAUDRATE, timeout=1) raises: log, then time.sleep(RETRY)
ReaderOpenFail ==
    /\ pc["reader"] = "open"
    /\ device # "ok"
    /\ Goto("reader", "retry")
    /\ UNCHANGED <<_lock, reply, ws, enc, _connected, _serial_port, _messages, _esp_ap_ssid, _esp_ap_password,
                   _esp_wifi_connected, _esp_wifi_ip, _esp_wifi_ssid, msg, img, out,
                   tracks, cached_gps, wifi, device, wlan0, nm, wire, chunks, calls, ops>>

\* a backoff after which the reader gives up
ReaderGiveUp ==
    /\ pc["reader"] = "retry"
    /\ Goto("reader", "stopped")
    /\ UNCHANGED <<_lock, reply, ws, enc, _connected, _serial_port, _messages, _esp_ap_ssid, _esp_ap_password,
                   _esp_wifi_connected, _esp_wifi_ip, _esp_wifi_ssid, msg, img, out,
                   tracks, cached_gps, wifi, device, wlan0, nm, wire, chunks, calls, ops>>

\* time.sleep(RETRY) is over: the next attempt of the while True loop
ReaderRetry ==
    /\ pc["reader"] = "retry"
    /\ Goto("reader", "open")
    /\ UNCHANGED <<_lock, reply, ws, enc, _connected, _serial_port, _messages, _esp_ap_ssid, _esp_ap_password,
                   _esp_wifi_connected, _esp_wifi_ip, _esp_wifi_ssid, msg, img, out,
                   tracks, cached_gps, wifi, device, wlan0, nm, wire, chunks, calls, ops>>

\* _serial_port = serial.Serial(...); break
ReaderOpen ==
    /\ pc["reader"] = "open"
    /\ device = "ok"
    /\ _serial_port' = "open"
    /\ Goto("reader", "connect")
    /\ UNCHANGED <<_lock, reply, ws, enc, _connected, _messages, _esp_ap_ssid, _esp_ap_password,
                   _esp_wifi_connected, _esp_wifi_ip, _esp_wifi_ssid, msg, img, out,
                   tracks, cached_gps, wifi, device, wlan0, nm, wire, chunks, calls, ops>>

\* with _lock: _connected = True
ReaderConnect ==
    /\ pc["reader"] = "connect"
    /\ WithLock("reader")
    /\ _connected' = TRUE
    /\ Goto("reader", "poll")
    /\ UNCHANGED <<reply, ws, enc, _serial_port, _messages, _esp_ap_ssid, _esp_ap_password,
                   _esp_wifi_connected, _esp_wifi_ip, _esp_wifi_ssid, msg, img, out,
                   tracks, cached_gps, wifi, device, wlan0, nm, wire, chunks, calls, ops>>

\* where the reader goes with the message it built from a line
AfterClassify(m) ==
    CASE m.type = "command" -> "cmd"
      [] m.type = "ap_info" /\ Len(ApParts(m.data)) >= 2 -> "ap_ssid"
      [] OTHER -> "append"

\* in_waiting > 0, line = readline().decode().strip(), the msg dict, its rssi and type
ReaderReadLine(line) ==
    /\ pc["reader"] = "poll"
    /\ device = "ok"
    /\ ops < MaxOps
    /\ ops' = ops + 1
    /\ IF line = <<>>
       THEN UNCHANGED <<msg, pc>>
       ELSE /\ msg' = RxMsg(line)
            /\ Goto("reader", AfterClassify(RxMsg(line)))
    /\ UNCHANGED <<_lock, reply, ws, enc, _connected, _serial_port, _messages, _esp_ap_ssid, _esp_ap_password,
                   _esp_wifi_connected, _esp_wifi_ip, _esp_wifi_ssid, img, out,
                   tracks, cached_gps, wifi, device, wlan0, nm, wire, chunks, calls>>

\* in_waiting or readline() raises: except Exception: log.warning(...); time.sleep(1)
ReaderReadError ==
    /\ pc["reader"] = "poll"
    /\ device = "failed"
    /\ Goto("reader", "err_sleep")
    /\ UNCHANGED <<_lock, reply, ws, enc, _connected, _serial_port, _messages, _esp_ap_ssid, _esp_ap_password,
                   _esp_wifi_connected, _esp_wifi_ip, _esp_wifi_ssid, msg, img, out,
                   tracks, cached_gps, wifi, device, wlan0, nm, wire, chunks, calls, ops>>

\* time.sleep(1) is over: back to the top of the read loop
ReaderErrWake ==
    /\ pc["reader"] = "err_sleep"
    /\ Goto("reader", "poll")
    /\ UNCHANGED <<_lock, reply, ws, enc, _connected, _serial_port, _messages, _esp_ap_ssid, _esp_ap_password,
                   _esp_wifi_connected, _esp_wifi_ip, _esp_wifi_ssid, msg, img, out,
                   tracks, cached_gps, wifi, device, wlan0, nm, wire, chunks, calls, ops>>

\* _esp_ap_ssid = parts[0]
ReaderApSsid ==
    /\ pc["reader"] = "ap_ssid"
    /\ _esp_ap_ssid' = ApParts(msg.data)[1]
    /\ Goto("reader", "ap_pw")
    /\ UNCHANGED <<_lock, reply, ws, enc, _connected, _serial_port, _messages, _esp_ap_password,
                   _esp_wifi_connected, _esp_wifi_ip, _esp_wifi_ssid, msg, img, out,
                   tracks, cached_gps, wifi, device, wlan0, nm, wire, chunks, calls, ops>>

\* an assignment of the password that keeps the one cached before
ReaderApPasswordKeep ==
    /\ pc["reader"] = "ap_pw"
    /\ Goto("reader", "append")
    /\ UNCHANGED <<_lock, reply, ws, enc, _connected, _serial_port, _messages, _esp_ap_ssid,
                   _esp_ap_password, _esp_wifi_connected, _esp_wifi_ip, _esp_wifi_ssid, msg,
                   img, out, tracks, cached_gps, wifi, device, wlan0, nm, wire, chunks, calls, ops>>

\* _esp_ap_password = parts[1]
ReaderApPassword ==
    /\ pc["reader"] = "ap_pw"
    /\ _esp_ap_password' = ApParts(msg.data)[2]
    /\ Goto("reader", "append")
    /\ UNCHANGED <<_lock, reply, ws, enc, _connected, _serial_port, _messages, _esp_ap_ssid,
                   _esp_wifi_connected, _esp_wifi_ip, _esp_wifi_ssid, msg, img, out,
                   tracks, cached_gps, wifi, device, wlan0, nm, wire, chunks, calls, ops>>

\* with _lock: _messages.append(msg), and the eviction; the line is done, and with it
\* the locals of the command it gave
ReaderAppend ==
    /\ pc["reader"] = "append"
    /\ WithLock("reader")
    /\ _messages' = AppendRx(_messages, msg)
    /\ msg' = NoMsg
    /\ img' = NoImg
    /\ chunks' = <<>>
    /\ calls' = <<>>
    /\ Goto("reader", "poll")
    /\ UNCHANGED <<reply, ws, enc, _connected, _serial_port, _esp_ap_ssid, _esp_ap_password,
                   _esp_wifi_connected, _esp_wifi_ip, _esp_wifi_ssid, out,
                   tracks, cached_gps, wifi, device, wlan0, nm, wire, ops>>

(***************************************************************************)
(* _handle_command and _send_track_image, run by the reader thread         *)
(***************************************************************************)
NoCall == <<>>

\* the argument after NAME: is one token that int() / float() accepts
IntArg(cmd) == Len(cmd) = 2 /\ cmd[2] \in IntTokens

\* a float() that never raises
FloatArgAny(cmd) == Len(cmd) = 2

\* float(cmd.split(":", 1)[1]) returns
FloatArg(cmd) == Len(cmd) = 2 /\ cmd[2] \in FloatTokens

\* a dispatcher that passes what it does not know on to the capture service
DispatchForward(cmd) ==
    CASE cmd = <<"REC_START">> ->
            [call |-> <<"capture", "/recording/start">>, next |-> "http"]
      [] OTHER -> [call |-> <<"capture", "/command">>, next |-> "http"]

\* the if / elif chain of _handle_command: the request it makes and where it goes;
\* a float() or int() that raises ends in "except Exception" with no request
Dispatch(cmd) ==
    CASE cmd = <<"REC_START">> ->
            [call |-> <<"capture", "/recording/start">>, next |-> "http"]
      [] cmd = <<"REC_STOP">> ->
            [call |-> <<"capture", "/recording/stop">>, next |-> "http"]
      [] StartsWith(cmd, "SET_CONF:") ->
            IF FloatArg(cmd) THEN [call |-> <<"detector", "/config">>, next |-> "http"]
            ELSE [call |-> NoCall, next |-> "append"]
      [] StartsWith(cmd, "SET_IMGSZ:") ->
            IF IntArg(cmd) THEN [call |-> <<"detector", "/config">>, next |-> "http"]
            ELSE [call |-> NoCall, next |-> "append"]
      [] StartsWith(cmd, "SET_MODEL:") ->
            [call |-> <<"detector", "/model">>, next |-> "http"]
      [] StartsWith(cmd, "GET_IMG:") ->
            IF IntArg(cmd) THEN [call |-> <<"detector", "/detections">>, next |-> "img_list"]
            ELSE [call |-> NoCall, next |-> "append"]
      [] OTHER -> [call |-> NoCall, next |-> "append"]

\* _handle_command(cmd), up to the request it sends
ReaderDispatch ==
    /\ pc["reader"] = "cmd"
    /\ LET d == Dispatch(CmdOf(msg.data))
       IN  /\ calls' = IF d.call = NoCall THEN calls ELSE Append(calls, d.call)
           /\ Goto("reader", d.next)
    /\ UNCHANGED <<_lock, reply, ws, enc, _connected, _serial_port, _messages, _esp_ap_ssid, _esp_ap_password,
                   _esp_wifi_connected, _esp_wifi_ip, _esp_wifi_ssid, msg, img, out,
                   tracks, cached_gps, wifi, device, wlan0, nm, wire, chunks, ops>>

\* a handler that sends the request again when no answer came
ReaderHttpRetry ==
    /\ pc["reader"] = "http"
    /\ IF Len(calls) < 2
       THEN /\ calls' = Append(calls, calls[Len(calls)])
            /\ UNCHANGED pc
       ELSE /\ UNCHANGED calls
            /\ Goto("reader", "append")
    /\ UNCHANGED <<_lock, reply, ws, enc, _connected, _serial_port, _messages, _esp_ap_ssid, _esp_ap_password,
                   _esp_wifi_connected, _esp_wifi_ip, _esp_wifi_ssid, msg, img, out,
                   tracks, cached_gps, wifi, device, wlan0, nm, wire, chunks, ops>>

\* the collaborator answers, or the request times out or raises: logged either way
ReaderHttpDone ==
    /\ pc["reader"] = "http"
    /\ Goto("reader", "append")
    /\ UNCHANGED <<_lock, reply, ws, enc, _connected, _serial_port, _messages, _esp_ap_ssid, _esp_ap_password,
                   _esp_wifi_connected, _esp_wifi_ip, _esp_wifi_ssid, msg, img, out,
                   tracks, cached_gps, wifi, device, wlan0, nm, wire, chunks, calls, ops>>

\* a transfer that goes on to the fetch although the list names no JPEG
ReaderImgListAnyway(found) ==
    /\ pc["reader"] = "img_list"
    /\ calls' = IF found THEN Append(calls, <<"detector", "jpeg_url">>) ELSE calls
    /\ Goto("reader", "img_fetch")
    /\ UNCHANGED <<_lock, reply, ws, enc, _connected, _serial_port, _messages, _esp_ap_ssid, _esp_ap_password,
                   _esp_wifi_connected, _esp_wifi_ip, _esp_wifi_ssid, msg, img, out,
                   tracks, cached_gps, wifi, device, wlan0, nm, wire, chunks, ops>>

\* GET /detections answered: found is "a detection of this track with a jpeg_url"
ReaderImgList(found) ==
    /\ pc["reader"] = "img_list"
    /\ IF found
       THEN /\ calls' = Append(calls, <<"detector", "jpeg_url">>)
            /\ Goto("reader", "img_fetch")
       ELSE /\ UNCHANGED calls
            /\ Goto("reader", "append")
    /\ UNCHANGED <<_lock, reply, ws, enc, _connected, _serial_port, _messages, _esp_ap_ssid, _esp_ap_password,
                   _esp_wifi_connected, _esp_wifi_ip, _esp_wifi_ssid, msg, img, out,
                   tracks, cached_gps, wifi, device, wlan0, nm, wire, chunks, ops>>

\* a failed fetch whose exception leaves _send_track_image and _handle_command and
\* ends in the handler of the read loop
ReaderImgFetchFailRaise ==
    /\ pc["reader"] = "img_fetch"
    /\ msg' = NoMsg
    /\ calls' = <<>>
    /\ Goto("reader", "err_sleep")
    /\ UNCHANGED <<_lock, reply, ws, enc, _connected, _serial_port, _messages, _esp_ap_ssid, _esp_ap_password,
                   _esp_wifi_connected, _esp_wifi_ip, _esp_wifi_ssid, img, out,
                   tracks, cached_gps, wifi, device, wlan0, nm, wire, chunks, ops>>

\* the JPEG fetch fails, or the image does not decode or encode: return
ReaderImgFetchFail ==
    /\ pc["reader"] = "img_fetch"
    /\ Goto("reader", "append")
    /\ UNCHANGED <<_lock, reply, ws, enc, _connected, _serial_port, _messages, _esp_ap_ssid, _esp_ap_password,
                   _esp_wifi_connected, _esp_wifi_ip, _esp_wifi_ssid, msg, img, out,
                   tracks, cached_gps, wifi, device, wlan0, nm, wire, chunks, calls, ops>>

\* the thumbnail is compressed to n bytes; total_chunks is computed
ReaderImgFetchOk(n) ==
    /\ pc["reader"] = "img_fetch"
    /\ img' = [len |-> n, c |-> 0, total_chunks |-> TotalChunks(n)]
    /\ chunks' = <<>>
    /\ Goto("reader", "img_loop")
    /\ UNCHANGED <<_lock, reply, ws, enc, _connected, _serial_port, _messages, _esp_ap_ssid, _esp_ap_password,
                   _esp_wifi_connected, _esp_wifi_ip, _esp_wifi_ssid, msg, out,
                   tracks, cached_gps, wifi, device, wlan0, nm, wire, calls, ops>>

\* for c in range(total_chunks): build the line of chunk c, or leave the loop
ReaderImgLoop ==
    /\ pc["reader"] = "img_loop"
    /\ IF img.c < img.total_chunks
       THEN /\ out' = [out EXCEPT !["reader"] = ImgLine(img.c, img.total_chunks, ImageData(img.len))]
            /\ Goto("reader", "write")
       ELSE /\ UNCHANGED out
            /\ Goto("reader", "append")
    /\ UNCHANGED <<_lock, reply, ws, enc, _connected, _serial_port, _messages, _esp_ap_ssid, _esp_ap_password,
                   _esp_wifi_connected, _esp_wifi_ip, _esp_wifi_ssid, msg, img,
                   tracks, cached_gps, wifi, device, wlan0, nm, wire, chunks, calls, ops>>

\* time.sleep(0.3) is over: the next c
ReaderImgSleep ==
    /\ pc["reader"] = "img_sleep"
    /\ img' = [img EXCEPT !.c = img.c + 1]
    /\ Goto("reader", "img_loop")
    /\ UNCHANGED <<_lock, reply, ws, enc, _connected, _serial_port, _messages, _esp_ap_ssid, _esp_ap_password,
                   _esp_wifi_connected, _esp_wifi_ip, _esp_wifi_ssid, msg, out,
                   tracks, cached_gps, wifi, device, wlan0, nm, wire, chunks, calls, ops>>

(***************************************************************************)
(* _serial_port.write(line): no lock is taken around it by any caller      *)
(***************************************************************************)
\* a transfer that builds the next line as soon as write() returns
AfterWriteNoPause(t) ==
    CASE t = "reader" -> "img_loop"
      [] t = "wifi" -> IF wifi.site = "resend" THEN "check" ELSE "avahi"
      [] OTHER -> "append"

\* where each caller goes when write() returns
AfterWrite(t) ==
    CASE t = "reader" -> "img_sleep"
      [] t = "wifi" -> IF wifi.site = "resend" THEN "check" ELSE "avahi"
      [] OTHER -> "append"

\* an except clause that ends the caller's loop
AfterWriteErrorStop(t) ==
    CASE t = "reader" -> "append"
      [] t = "send" -> "idle"
      [] OTHER -> "stopped"

\* where each caller's except clause leaves it when write() raises
AfterWriteError(t) ==
    CASE t = "reader" -> "append"
      [] t = "send" -> "idle"
      [] t = "wifi" -> IF wifi.site = "resend" THEN "check" ELSE "avahi"
      [] OTHER -> "sleep"

\* what a finished write leaves behind: the chunk list of the image transfer, the
\* "last_wifi_send = time.time()" of the WiFi thread
WriteDone(t) ==
    /\ chunks' = IF t = "reader" THEN Append(chunks, out["reader"]) ELSE chunks
    /\ wifi' = IF t = "wifi" THEN [wifi EXCEPT !.age = 0] ELSE wifi
    /\ out' = IF AfterWrite(t) = "append" THEN out ELSE [out EXCEPT ![t] = NoLine]
    /\ Goto(t, AfterWrite(t))

\* write() puts the whole line on the wire in one piece and returns
WriteAll(t) ==
    /\ pc[t] = "write"
    /\ device = "ok"
    /\ wire' = PutOnWire(wire, Piece(t, "line"))
    /\ WriteDone(t)
    /\ UNCHANGED <<_lock, reply, ws, enc, _connected, _serial_port, _messages, _esp_ap_ssid, _esp_ap_password,
                   _esp_wifi_connected, _esp_wifi_ip, _esp_wifi_ssid, msg, img,
                   tracks, cached_gps, device, wlan0, nm, calls, ops>>

\* write() puts the first part of the line on the wire; the rest is still to go
WritePart(t) ==
    /\ pc[t] = "write"
    /\ device = "ok"
    /\ wire' = PutOnWire(wire, Piece(t, "head"))
    /\ Goto(t, "writing")
    /\ UNCHANGED <<_lock, reply, ws, enc, _connected, _serial_port, _messages, _esp_ap_ssid, _esp_ap_password,
                   _esp_wifi_connected, _esp_wifi_ip, _esp_wifi_ssid, msg, img, out,
                   tracks, cached_gps, wifi, device, wlan0, nm, chunks, calls, ops>>

\* write() puts the rest of the line on the wire and returns
WriteRest(t) ==
    /\ pc[t] = "writing"
    /\ device = "ok"
    /\ wire' = PutOnWire(wire, Piece(t, "tail"))
    /\ WriteDone(t)
    /\ UNCHANGED <<_lock, reply, ws, enc, _connected, _serial_port, _messages, _esp_ap_ssid, _esp_ap_password,
                   _esp_wifi_connected, _esp_wifi_ip, _esp_wifi_ssid, msg, img,
                   tracks, cached_gps, device, wlan0, nm, calls, ops>>

\* a caller that logs its line although write() raised
WriteErrorLogged(t) ==
    /\ pc[t] \in {"write", "writing"}
    /\ device = "failed"
    /\ Goto(t, "append")
    /\ UNCHANGED <<out, tracks, _lock, reply, ws, enc, _connected, _serial_port, _messages, _esp_ap_ssid, _esp_ap_password,
                   _esp_wifi_connected, _esp_wifi_ip, _esp_wifi_ssid, msg, img,
                   cached_gps, wifi, device, wlan0, nm, wire, chunks, calls, ops>>

\* write() raises (the device fails): the caller's except clause
WriteError(t) ==
    /\ pc[t] \in {"write", "writing"}
    /\ device = "failed"
    /\ out' = [out EXCEPT ![t] = NoLine]
    /\ tracks' = IF t = "det" THEN <<>> ELSE tracks
    /\ Goto(t, AfterWriteError(t))
    /\ UNCHANGED <<_lock, reply, ws, enc, _connected, _serial_port, _messages, _esp_ap_ssid, _esp_ap_password,
                   _esp_wifi_connected, _esp_wifi_ip, _esp_wifi_ssid, msg, img,
                   cached_gps, wifi, device, wlan0, nm, wire, chunks, calls, ops>>

(***************************************************************************)
(* The forwarder threads                                                   *)
(***************************************************************************)
\* a link test that looks at the port only
LinkDownPortOnly == _serial_port = "None"

\* "if _serial_port is None or not _connected: continue"
LinkDown == _serial_port = "None" \/ ~_connected

\* a tel_string of mavlink_service's get_telemetry_string and its length in bytes
TelString ==
    [body |-> <<"TEL:", "47.123456,8.123456,12.3,5.0,90,12.6,80,3,10,AUTO,1">>,
     len |-> 4 + FixedLen(47123456, 6) + 1 + FixedLen(8123456, 6) + 1 + FixedLen(123, 1) + 1
             + FixedLen(50, 1) + 1 + IntLen(90) + 1 + FixedLen(126, 1) + 1 + IntLen(80) + 1
             + IntLen(3) + 1 + IntLen(10) + 1 + 4 + 1 + 1]

\* payload = (tel_string + "\n").encode("utf-8")
TelLine(tel) == [kind |-> "TEL", body |-> tel.body, len |-> tel.len + 1]

\* time.sleep(TEL_INTERVAL) is over: skip the cycle or start the request
TelTick ==
    /\ pc["tel"] = "sleep"
    /\ LinkDown \/ ops < MaxOps
    /\ IF LinkDown
       THEN UNCHANGED <<pc, ops>>
       ELSE /\ Goto("tel", "fetch")
            /\ ops' = ops + 1
    /\ UNCHANGED <<_lock, reply, ws, enc, _connected, _serial_port, _messages, _esp_ap_ssid, _esp_ap_password,
                   _esp_wifi_connected, _esp_wifi_ip, _esp_wifi_ssid, msg, img, out,
                   tracks, cached_gps, wifi, device, wlan0, nm, wire, chunks, calls>>

\* GET /telemetry/lora raises, times out, is not 200 or has no "TEL:" string
TelFetchFail ==
    /\ pc["tel"] = "fetch"
    /\ Goto("tel", "sleep")
    /\ UNCHANGED <<_lock, reply, ws, enc, _connected, _serial_port, _messages, _esp_ap_ssid, _esp_ap_password,
                   _esp_wifi_connected, _esp_wifi_ip, _esp_wifi_ssid, msg, img, out,
                   tracks, cached_gps, wifi, device, wlan0, nm, wire, chunks, calls, ops>>

\* GET /telemetry/lora returns a tel_string that starts with "TEL:"
TelFetchOk(tel) ==
    /\ pc["tel"] = "fetch"
    /\ out' = [out EXCEPT !["tel"] = TelLine(tel)]
    /\ Goto("tel", "write")
    /\ UNCHANGED <<_lock, reply, ws, enc, _connected, _serial_port, _messages, _esp_ap_ssid, _esp_ap_password,
                   _esp_wifi_connected, _esp_wifi_ip, _esp_wifi_ssid, msg, img,
                   tracks, cached_gps, wifi, device, wlan0, nm, wire, chunks, calls, ops>>

\* with _lock: _messages.append({"direction": "tx", "data": tel_string, "type": "telemetry"})
TelAppend ==
    /\ pc["tel"] = "append"
    /\ WithLock("tel")
    /\ _messages' = AppendTx(_messages, TxEntry(out["tel"].body, "telemetry"))
    /\ out' = [out EXCEPT !["tel"] = NoLine]
    /\ Goto("tel", "sleep")
    /\ UNCHANGED <<reply, ws, enc, _connected, _serial_port, _esp_ap_ssid, _esp_ap_password,
                   _esp_wifi_connected, _esp_wifi_ip, _esp_wifi_ssid, msg, img,
                   tracks, cached_gps, wifi, device, wlan0, nm, wire, chunks, calls, ops>>

\* tracks of a /tracks answer: class_name (with its length), confidence in 0.01, track_id
TrackPerson == [class_name |-> "person", class_len |-> 6, confidence |-> 87, track_id |-> 12]
TrackNoId == [class_name |-> "unknown", class_len |-> 7, confidence |-> 0, track_id |-> -1]
TrackSet == {TrackPerson, TrackNoId}

\* sequences of at most n elements of S
RECURSIVE SeqsUpTo(_, _)
SeqsUpTo(S, n) ==
    IF n = 0 THEN {<<>>}
    ELSE LET shorter == SeqsUpTo(S, n - 1)
         IN  shorter \cup {Append(q, x) : q \in shorter, x \in S}

\* det_line = f"DET:{cls},{conf:.2f},{tid},{lat:.6f},{lon:.6f},{alt:.1f}", plus "\n"
DetLine(t, gps) ==
    [kind |-> "DET",
     body |-> <<"DET:", t.class_name, t.confidence, t.track_id, gps.lat, gps.lon, gps.alt>>,
     len |-> 4 + t.class_len + 1 + FixedLen(t.confidence, 2) + 1 + IntLen(t.track_id) + 1
             + FixedLen(gps.lat, 6) + 1 + FixedLen(gps.lon, 6) + 1 + FixedLen(gps.alt, 1) + 1]

\* time.sleep(DET_INTERVAL) is over: skip the cycle or start the requests
DetTick ==
    /\ pc["det"] = "sleep"
    /\ LinkDown \/ ops < MaxOps
    /\ IF LinkDown
       THEN UNCHANGED <<pc, ops>>
       ELSE /\ Goto("det", "fetch")
            /\ ops' = ops + 1
    /\ UNCHANGED <<_lock, reply, ws, enc, _connected, _serial_port, _messages, _esp_ap_ssid, _esp_ap_password,
                   _esp_wifi_connected, _esp_wifi_ip, _esp_wifi_ssid, msg, img, out,
                   tracks, cached_gps, wifi, device, wlan0, nm, wire, chunks, calls>>

\* GET /telemetry/structured (gps is its answer, or cached_gps kept when it fails),
\* then GET /tracks raises or is not 200
DetFetchFail(gps) ==
    /\ pc["det"] = "fetch"
    /\ cached_gps' = gps
    /\ Goto("det", "sleep")
    /\ UNCHANGED <<_lock, reply, ws, enc, _connected, _serial_port, _messages, _esp_ap_ssid, _esp_ap_password,
                   _esp_wifi_connected, _esp_wifi_ip, _esp_wifi_ssid, msg, img, out,
                   tracks, wifi, device, wlan0, nm, wire, chunks, calls, ops>>

\* GET /telemetry/structured as above, then GET /tracks returns the active tracks ts
DetFetchOk(gps, ts) ==
    /\ pc["det"] = "fetch"
    /\ cached_gps' = gps
    /\ tracks' = ts
    /\ Goto("det", "next")
    /\ UNCHANGED <<_lock, reply, ws, enc, _connected, _serial_port, _messages, _esp_ap_ssid, _esp_ap_password,
                   _esp_wifi_connected, _esp_wifi_ip, _esp_wifi_ssid, msg, img, out,
                   wifi, device, wlan0, nm, wire, chunks, calls, ops>>

\* a loop that passes over a track whose line is already in the log
DetNextNewOnly ==
    /\ pc["det"] = "next"
    /\ IF tracks = <<>>
       THEN /\ Goto("det", "sleep")
            /\ UNCHANGED <<tracks, out>>
       ELSE IF \/ Head(tracks).track_id < 0
               \/ \E i \in 1..Len(_messages) :
                     /\ _messages[i].type = "detection"
                     /\ _messages[i].data = DetLine(Head(tracks), cached_gps).body
       THEN /\ tracks' = Tail(tracks)
            /\ UNCHANGED <<pc, out>>
       ELSE /\ out' = [out EXCEPT !["det"] = DetLine(Head(tracks), cached_gps)]
            /\ Goto("det", "write")
            /\ UNCHANGED tracks
    /\ UNCHANGED <<_lock, reply, ws, enc, _connected, _serial_port, _messages, _esp_ap_ssid, _esp_ap_password,
                   _esp_wifi_connected, _esp_wifi_ip, _esp_wifi_ssid, msg, img,
                   cached_gps, wifi, device, wlan0, nm, wire, chunks, calls, ops>>

\* for t in tracks: the loop ends, skips a track with tid < 0, or builds its det_line
DetNext ==
    /\ pc["det"] = "next"
    /\ IF tracks = <<>>
       THEN /\ Goto("det", "sleep")
            /\ UNCHANGED <<tracks, out>>
       ELSE IF Head(tracks).track_id < 0
       THEN /\ tracks' = Tail(tracks)
            /\ UNCHANGED <<pc, out>>
       ELSE /\ out' = [out EXCEPT !["det"] = DetLine(Head(tracks), cached_gps)]
            /\ Goto("det", "write")
            /\ UNCHANGED tracks
    /\ UNCHANGED <<_lock, reply, ws, enc, _connected, _serial_port, _messages, _esp_ap_ssid, _esp_ap_password,
                   _esp_wifi_connected, _esp_wifi_ip, _esp_wifi_ssid, msg, img,
                   cached_gps, wifi, device, wlan0, nm, wire, chunks, calls, ops>>

\* a track of the answer has a field the loop cannot use (track_id or confidence is
\* null or a string): "tid < 0" or the f-string raises, and "except Exception" ends
\* the cycle with the rest of the snapshot unsent
DetMalformed ==
    /\ pc["det"] = "next"
    /\ tracks # <<>>
    /\ tracks' = <<>>
    /\ Goto("det", "sleep")
    /\ UNCHANGED <<_lock, reply, ws, enc, _connected, _serial_port, _messages, _esp_ap_ssid, _esp_ap_password,
                   _esp_wifi_connected, _esp_wifi_ip, _esp_wifi_ssid, msg, img, out,
                   cached_gps, wifi, device, wlan0, nm, wire, chunks, calls, ops>>

\* with _lock: _messages.append({"direction": "tx", "data": det_line, "type": "detection"})
DetAppend ==
    /\ pc["det"] = "append"
    /\ WithLock("det")
    /\ _messages' = AppendTx(_messages, TxEntry(out["det"].body, "detection"))
    /\ out' = [out EXCEPT !["det"] = NoLine]
    /\ tracks' = Tail(tracks)
    /\ Goto("det", "next")
    /\ UNCHANGED <<reply, ws, enc, _connected, _serial_port, _esp_ap_ssid, _esp_ap_password,
                   _esp_wifi_connected, _esp_wifi_ip, _esp_wifi_ssid, msg, img,
                   cached_gps, wifi, device, wlan0, nm, wire, chunks, calls, ops>>

\* the values of one status cycle: the defaults when a source is unavailable
StsDefaults ==
    [recording |-> FALSE, fps |-> 0, tracks |-> 0, model |-> "N/A", model_len |-> 3,
     conf |-> 50, imgsz |-> 640, inf_ms |-> 0, cpu_temp |-> -10]
StsSample ==
    [recording |-> TRUE, fps |-> 149, tracks |-> 2, model |-> "yolo11n.onnx", model_len |-> 12,
     conf |-> 45, imgsz |-> 640, inf_ms |-> 33, cpu_temp |-> 512]

\* a cycle that reports 0.0 for a temperature it could not read
StsValuesNoSentinel(thermal, capture, metrics, config) ==
    [recording |-> IF capture THEN StsSample.recording ELSE FALSE,
     fps |-> IF metrics THEN StsSample.fps ELSE 0,
     tracks |-> IF metrics THEN StsSample.tracks ELSE 0,
     model |-> IF config THEN StsSample.model ELSE "N/A",
     model_len |-> IF config THEN StsSample.model_len ELSE 3,
     conf |-> IF config THEN StsSample.conf ELSE 50,
     imgsz |-> IF config THEN StsSample.imgsz ELSE 640,
     inf_ms |-> IF metrics THEN StsSample.inf_ms ELSE 0,
     cpu_temp |-> IF thermal THEN StsSample.cpu_temp ELSE 0]

\* the values of a cycle: each starts at its default (cpu_temp = -1.0, in tenths) and
\* is replaced when its source answers: the thermal file, GET /status of the capture
\* service, GET /metrics and GET /config of the detector, each in its own try/except
StsValues(thermal, capture, metrics, config) ==
    [recording |-> IF capture THEN StsSample.recording ELSE FALSE,
     fps |-> IF metrics THEN StsSample.fps ELSE 0,
     tracks |-> IF metrics THEN StsSample.tracks ELSE 0,
     model |-> IF config THEN StsSample.model ELSE "N/A",
     model_len |-> IF config THEN StsSample.model_len ELSE 3,
     conf |-> IF config THEN StsSample.conf ELSE 50,
     imgsz |-> IF config THEN StsSample.imgsz ELSE 640,
     inf_ms |-> IF metrics THEN StsSample.inf_ms ELSE 0,
     cpu_temp |-> IF thermal THEN StsSample.cpu_temp ELSE -10]

\* sts_line = f"STS:{rec_int},{fps:.1f},{tracks},{model},{conf:.2f},{imgsz},{inf_ms:.0f},{cpu_temp:.1f}"
StsLine(v) ==
    [kind |-> "STS",
     body |-> <<"STS:", IF v.recording THEN 1 ELSE 0, v.fps, v.tracks, v.model, v.conf,
                v.imgsz, v.inf_ms, v.cpu_temp>>,
     len |-> 4 + 1 + 1 + FixedLen(v.fps, 1) + 1 + IntLen(v.tracks) + 1 + v.model_len + 1
             + FixedLen(v.conf, 2) + 1 + IntLen(v.imgsz) + 1 + IntLen(v.inf_ms) + 1
             + FixedLen(v.cpu_temp, 1) + 1]

\* time.sleep(STS_INTERVAL) is over: skip the cycle or start collecting
StsTick ==
    /\ pc["sts"] = "sleep"
    /\ LinkDown \/ ops < MaxOps
    /\ IF LinkDown
       THEN UNCHANGED <<pc, ops>>
       ELSE /\ Goto("sts", "fetch")
            /\ ops' = ops + 1
    /\ UNCHANGED <<_lock, reply, ws, enc, _connected, _serial_port, _messages, _esp_ap_ssid, _esp_ap_password,
                   _esp_wifi_connected, _esp_wifi_ip, _esp_wifi_ssid, msg, img, out,
                   tracks, cached_gps, wifi, device, wlan0, nm, wire, chunks, calls>>

\* the thermal file and the three GETs, each in its own try/except: the values v
StsFetch(v) ==
    /\ pc["sts"] = "fetch"
    /\ out' = [out EXCEPT !["sts"] = StsLine(v)]
    /\ Goto("sts", "write")
    /\ UNCHANGED <<_lock, reply, ws, enc, _connected, _serial_port, _messages, _esp_ap_ssid, _esp_ap_password,
                   _esp_wifi_connected, _esp_wifi_ip, _esp_wifi_ssid, msg, img,
                   tracks, cached_gps, wifi, device, wlan0, nm, wire, chunks, calls, ops>>

\* a status cycle whose except clause is outside the loop
StsMalformedStop ==
    /\ pc["sts"] = "fetch"
    /\ Goto("sts", "stopped")
    /\ UNCHANGED <<_lock, reply, ws, enc, _connected, _serial_port, _messages, _esp_ap_ssid, _esp_ap_password,
                   _esp_wifi_connected, _esp_wifi_ip, _esp_wifi_ssid, msg, img, out,
                   tracks, cached_gps, wifi, device, wlan0, nm, wire, chunks, calls, ops>>

\* a collaborator answers 200 with a value the f-string of the status line cannot
\* format (fps, confidence, last_inference_ms null or a string): the f-string raises,
\* "except Exception" logs it and the cycle ends without a line
StsMalformed ==
    /\ pc["sts"] = "fetch"
    /\ Goto("sts", "sleep")
    /\ UNCHANGED <<_lock, reply, ws, enc, _connected, _serial_port, _messages, _esp_ap_ssid, _esp_ap_password,
                   _esp_wifi_connected, _esp_wifi_ip, _esp_wifi_ssid, msg, img, out,
                   tracks, cached_gps, wifi, device, wlan0, nm, wire, chunks, calls, ops>>

\* with _lock: _messages.append({"direction": "tx", "data": sts_line, "type": "status"})
StsAppend ==
    /\ pc["sts"] = "append"
    /\ WithLock("sts")
    /\ _messages' = AppendTx(_messages, TxEntry(out["sts"].body, "status"))
    /\ out' = [out EXCEPT !["sts"] = NoLine]
    /\ Goto("sts", "sleep")
    /\ UNCHANGED <<reply, ws, enc, _connected, _serial_port, _esp_ap_ssid, _esp_ap_password,
                   _esp_wifi_connected, _esp_wifi_ip, _esp_wifi_ssid, msg, img,
                   tracks, cached_gps, wifi, device, wlan0, nm, wire, chunks, calls, ops>>

(***************************************************************************)
(* POST /send                                                              *)
(***************************************************************************)
\* request texts, with their length in bytes
TextShort == [text |-> "ping", len |-> 4]
TextLong == [text |-> "x * 300", len |-> 300]

\* payload = (req.text + "\n").encode("utf-8")
TextLine(req) == [kind |-> "TXT", body |-> <<req.text>>, len |-> req.len + 1]

\* send_message(req): 503 when not connected, else the payload is handed to write
SendRequest(req) ==
    /\ pc["send"] = "idle"
    /\ LoopFree("send")
    /\ LinkDown \/ ops < MaxOps
    /\ IF LinkDown
       THEN UNCHANGED <<pc, ops, out>>
       ELSE /\ out' = [out EXCEPT !["send"] = TextLine(req)]
            /\ Goto("send", "write")
            /\ ops' = ops + 1
    /\ UNCHANGED <<_lock, reply, ws, enc, _connected, _serial_port, _messages, _esp_ap_ssid, _esp_ap_password,
                   _esp_wifi_connected, _esp_wifi_ip, _esp_wifi_ssid, msg, img,
                   tracks, cached_gps, wifi, device, wlan0, nm, wire, chunks, calls>>

\* with _lock: _messages.append({"direction": "tx", "data": req.text, "ts": ts}); "sent"
SendAppend ==
    /\ pc["send"] = "append"
    /\ WithLock("send")
    /\ _messages' = AppendTx(_messages, TxEntry(out["send"].body, "generic"))
    /\ out' = [out EXCEPT !["send"] = NoLine]
    /\ Goto("send", "idle")
    /\ UNCHANGED <<reply, ws, enc, _connected, _serial_port, _esp_ap_ssid, _esp_ap_password,
                   _esp_wifi_connected, _esp_wifi_ip, _esp_wifi_ssid, msg, img,
                   tracks, cached_gps, wifi, device, wlan0, nm, wire, chunks, calls, ops>>

(***************************************************************************)
(* Specifications                                                          *)
(***************************************************************************)
\* lines the ESP32 sends in the runs of Spec
RxLines == {<<>>, LineGeneric, LineTelEcho, LineRecStart, LineGetImg, LineGetImgBad,
            LineUnknown, LineAp1, LineApBad}

\* thumbnail sizes in the runs of Spec: none, less than a chunk, a chunk, more
ImgSizes == {0, 1, IMG_CHUNK_BYTES, IMG_CHUNK_BYTES + 1}

Device == DevicePlug \/ DeviceFail \/ DeviceRecover

ReaderStart == ReaderOpenFail \/ ReaderRetry \/ ReaderOpen \/ ReaderConnect

ReaderFault == ReaderReadError \/ ReaderErrWake

ReaderCommand ==
    \/ ReaderDispatch
    \/ ReaderHttpDone
    \/ \E found \in BOOLEAN : ReaderImgList(found)
    \/ ReaderImgFetchFail
    \/ ReaderImgLoop
    \/ ReaderImgSleep

ReaderAp == ReaderApSsid \/ ReaderApPassword

Write(t) == WriteAll(t) \/ WritePart(t) \/ WriteRest(t) \/ WriteError(t)

\* the service with telemetry_forward off: the reader, its commands, /send
Next ==
    \/ Device
    \/ ReaderStart
    \/ ReaderFault
    \/ \E line \in RxLines : ReaderReadLine(line)
    \/ ReaderCommand
    \/ \E n \in ImgSizes : ReaderImgFetchOk(n)
    \/ ReaderAp
    \/ ReaderAppend
    \/ \E req \in {TextShort, TextLong} : SendRequest(req)
    \/ SendAppend
    \/ \E t \in {"reader", "send"} : Write(t)

Spec == Init /\ [][Next]_vars

\* the reader thread keeps being scheduled while it opens the device
\* what the reader does with a line it has read, up to its log entry
ReaderLine ==
    \/ ReaderCommand
    \/ \E n \in {1, IMG_CHUNK_BYTES + 1} : ReaderImgFetchOk(n)
    \/ ReaderAp
    \/ ReaderAppend
    \/ Write("reader")

FairSpec == Spec /\ WF_vars(ReaderStart)

Forwarders == {"tel", "det", "sts"}

Tel == TelTick \/ TelFetchFail \/ TelFetchOk(TelString) \/ TelAppend

Det ==
    \/ DetTick
    \/ \E gps \in {cached_gps, GpsFix} : DetFetchFail(gps)
    \/ \E gps \in {cached_gps, GpsFix}, ts \in SeqsUpTo(TrackSet, MaxTracks) : DetFetchOk(gps, ts)
    \/ DetNext
    \/ DetAppend

Sts == StsTick \/ (\E v \in {StsDefaults, StsSample} : StsFetch(v)) \/ StsAppend

\* the service with telemetry_forward on and a silent ESP32: the reader opens the
\* port and polls it, the three forwarders and /send write to it
NextFwd ==
    \/ Device
    \/ ReaderStart
    \/ ReaderFault
    \/ Tel
    \/ Det
    \/ Sts
    \/ \E req \in {TextShort, TextLong} : SendRequest(req)
    \/ SendAppend
    \/ \E t \in Forwarders \cup {"send"} : Write(t)

SpecFwd == Init /\ [][NextFwd]_vars

\* the i-th line of a long session
LineNo(i) == <<"line", ToString(i)>>

\* a state of a long session: the port is open, the link connected, and the reader
\* has logged _MAX_MSG - 1 lines so far
InitLog ==
    /\ _connected = TRUE
    /\ _serial_port = "open"
    /\ _messages = [i \in 1..(_MAX_MSG - 1) |-> RxMsg(LineNo(i))]
    /\ _esp_ap_ssid = <<>>
    /\ _esp_ap_password = <<>>
    /\ _esp_wifi_connected = FALSE
    /\ _esp_wifi_ip = <<>>
    /\ _esp_wifi_ssid = <<>>
    /\ pc = [t \in Threads |->
               CASE t = "reader" -> "poll"
                 [] t = "send" -> "idle"
                 [] t = "rest" -> "idle"
                 [] t = "ws" -> "closed"
                 [] t = "wifi" -> "top"
                 [] OTHER -> "sleep"]
    /\ msg = NoMsg
    /\ img = NoImg
    /\ out = [t \in Threads |-> NoLine]
    /\ tracks = <<>>
    /\ cached_gps = GpsZero
    /\ wifi = NoWifi
    /\ device = "ok"
    /\ wlan0 = <<>>
    /\ nm = "ok"
    /\ wire = <<>>
    /\ chunks = <<>>
    /\ calls = <<>>
    /\ enc = NoEnc
    /\ _lock = "free"
    /\ reply = NoReply
    /\ ws = NoWs
    /\ ops = 0

\* the long session goes on: lines arrive, the telemetry forwarder and /send transmit
NextLog ==
    \/ DeviceFail
    \/ DeviceRecover
    \/ ReaderFault
    \/ \E line \in {LineGeneric, LineTelEcho} : ReaderReadLine(line)
    \/ ReaderAppend
    \/ Tel
    \/ SendRequest(TextShort)
    \/ SendAppend
    \/ \E t \in {"tel", "send"} : Write(t)

SpecLog == InitLog /\ [][NextLog]_vars

\* the service handling thumbnail requests: GET_IMG commands arrive, thumbnails of
\* every size up to MaxImgLen are transferred, the device may fail under the transfer
NextImg ==
    \/ Device
    \/ ReaderStart
    \/ ReaderFault
    \/ ReaderReadLine(LineGetImg)
    \/ ReaderDispatch
    \/ \E found \in BOOLEAN : ReaderImgList(found)
    \/ ReaderImgFetchFail
    \/ ReaderImgLoop
    \/ ReaderImgSleep
    \/ \E n \in 0..MaxImgLen : ReaderImgFetchOk(n)
    \/ ReaderAppend
    \/ Write("reader")

SpecImg == Init /\ [][NextImg]_vars

(***************************************************************************)
(* _esp_wifi_connect_loop and the network manager it drives                *)
(***************************************************************************)
\* what the WiFi thread never touches
NotWifi == <<_connected, _serial_port, _messages, _esp_ap_ssid, _esp_ap_password, msg, img,
             tracks, cached_gps, device, wire, chunks, calls, ops>>

\* the steps of each thread, with one answer of each kind from the collaborators
ReaderStep ==
    \/ ReaderStart
    \/ ReaderFault
    \/ \E line \in {LineGetImg, LineGetImgBad} : ReaderReadLine(line)
    \/ ReaderDispatch
    \/ \E found \in BOOLEAN : ReaderImgList(found)
    \/ ReaderImgFetchFail
    \/ ReaderImgFetchOk(1)
    \/ ReaderImgLoop
    \/ ReaderImgSleep
    \/ ReaderAppend
    \/ Write("reader")

TelStep == Tel \/ Write("tel")

DetStep ==
    \/ DetTick
    \/ DetFetchFail(cached_gps)
    \/ \E ts \in {<<>>, <<TrackPerson>>} : DetFetchOk(cached_gps, ts)
    \/ DetNext
    \/ DetAppend
    \/ Write("det")

StsStep == StsTick \/ StsFetch(StsDefaults) \/ StsAppend \/ Write("sts")

\* the service with telemetry_forward on: the reader with the image transfers it
\* runs, and the three forwarders
NextAll ==
    \/ Device
    \/ ReaderStep
    \/ TelStep
    \/ DetStep
    \/ StsStep

SpecAll == Init /\ [][NextAll]_vars

\* the telemetry forwarder keeps being scheduled; the other threads may stall anywhere
FairSpecAll == SpecAll /\ WF_vars(TelStep)

\* the same, but for the count of operations started
NotOps == <<_connected, _serial_port, _messages, _esp_ap_ssid, _esp_ap_password, msg, img,
            tracks, cached_gps, device, wire, chunks, calls>>

\* the address DHCP of the ESP32 AP assigns
IpAddr == <<"192.168.4.2">>

\* wifi_line = f"WIFI:{ip},{ESP_WIFI_HOSTNAME},{WEB_PORT}", plus "\n", with the
\* default hostname "dc-detect" and port 8080
WifiLine(ip) ==
    [kind |-> "WIFI",
     body |-> <<"WIFI:">> \o ip \o <<"dc-detect", "8080">>,
     len |-> 5 + (IF ip = <<>> THEN 0 ELSE 11) + 1 + 9 + 1 + IntLen(8080) + 1]

\* an iteration that ends without sleeping
NapNone(n) == [wifi EXCEPT !.nap = 0]

\* time.sleep(n) at the end of an iteration
Nap(n) == [wifi EXCEPT !.nap = n]

\* wlan0 joins another network or loses its network, from outside
WlanChange(net) ==
    /\ ops < MaxOps
    /\ ops' = ops + 1
    /\ wlan0 # net
    /\ wlan0' = net
    /\ UNCHANGED <<_lock, reply, ws, enc, NotOps, _esp_wifi_connected, _esp_wifi_ip, _esp_wifi_ssid, pc, out, wifi, nm>>

\* the AP goes out of reach, stops handing out addresses, or works again
NmChange(m) ==
    /\ ops < MaxOps
    /\ ops' = ops + 1
    /\ nm # m
    /\ nm' = m
    /\ UNCHANGED <<_lock, reply, ws, enc, NotOps, _esp_wifi_connected, _esp_wifi_ip, _esp_wifi_ssid, pc, out, wifi, wlan0>>

\* _get_wlan0_ssid(subprocess): the connection of wlan0, "" when nmcli fails
GetWlan0Ssid(answered) == IF answered THEN wlan0 ELSE <<>>

\* a loop top whose connected branch goes to the drift check without the WIFI line
WifiTopNoResend ==
    /\ pc["wifi"] = "top"
    /\ IF _esp_wifi_connected
       THEN /\ Goto("wifi", "check")
            /\ UNCHANGED <<out, wifi>>
       ELSE IF _esp_ap_ssid = <<>>
            THEN /\ wifi' = Nap(5)
                 /\ Goto("wifi", "sleep")
                 /\ UNCHANGED out
            ELSE /\ wifi' = [wifi EXCEPT !.target = _esp_ap_ssid]
                 /\ Goto("wifi", "read_pw")
                 /\ UNCHANGED out
    /\ UNCHANGED <<_lock, reply, ws, enc, NotWifi, _esp_wifi_connected, _esp_wifi_ip, _esp_wifi_ssid, wlan0, nm>>

\* the top of the while True loop: the connected branch (with the WIFI line when
\* more than 30 s passed since the last one), the wait for AP info, or target = _esp_ap_ssid
WifiTop ==
    /\ pc["wifi"] = "top"
    /\ IF _esp_wifi_connected
       THEN IF wifi.age > 30 /\ ~LinkDown
            THEN /\ out' = [out EXCEPT !["wifi"] = WifiLine(_esp_wifi_ip)]
                 /\ wifi' = [wifi EXCEPT !.site = "resend"]
                 /\ Goto("wifi", "write")
            ELSE /\ Goto("wifi", "check")
                 /\ UNCHANGED <<out, wifi>>
       ELSE IF _esp_ap_ssid = <<>>
            THEN /\ wifi' = Nap(5)
                 /\ Goto("wifi", "sleep")
                 /\ UNCHANGED out
            ELSE /\ wifi' = [wifi EXCEPT !.target = _esp_ap_ssid]
                 /\ Goto("wifi", "read_pw")
                 /\ UNCHANGED out
    /\ UNCHANGED <<_lock, reply, ws, enc, NotWifi, _esp_wifi_connected, _esp_wifi_ip, _esp_wifi_ssid, wlan0, nm>>

\* a drift check that takes an empty answer for "no change"
WifiCheckOnlyOther(answered) ==
    /\ pc["wifi"] = "check"
    /\ LET current_ssid == GetWlan0Ssid(answered)
       IN  IF current_ssid # <<>> /\ current_ssid # _esp_wifi_ssid
           THEN /\ _esp_wifi_connected' = FALSE
                /\ _esp_wifi_ip' = <<>>
           ELSE UNCHANGED <<_esp_wifi_connected, _esp_wifi_ip>>
    /\ wifi' = Nap(10)
    /\ Goto("wifi", "sleep")
    /\ UNCHANGED <<_lock, reply, ws, enc, NotWifi, _esp_wifi_ssid, out, wlan0, nm>>

\* the drift check of what wlan0 is on against _esp_wifi_ssid, then time.sleep(10)
WifiCheck(answered) ==
    /\ pc["wifi"] = "check"
    /\ IF GetWlan0Ssid(answered) # _esp_wifi_ssid
       THEN /\ _esp_wifi_connected' = FALSE
            /\ _esp_wifi_ip' = <<>>
       ELSE UNCHANGED <<_esp_wifi_connected, _esp_wifi_ip>>
    /\ wifi' = Nap(10)
    /\ Goto("wifi", "sleep")
    /\ UNCHANGED <<_lock, reply, ws, enc, NotWifi, _esp_wifi_ssid, out, wlan0, nm>>

\* a thread that stops after an attempt that failed
WifiWakeGiveUp ==
    /\ pc["wifi"] = "sleep"
    /\ wifi' = [NoWifi EXCEPT !.age = Min(31, wifi.age + wifi.nap), !.running = wifi.running]
    /\ Goto("wifi", IF wifi.target # <<>> /\ wifi.ip = <<>> THEN "stopped" ELSE "top")
    /\ UNCHANGED <<_lock, reply, ws, enc, NotWifi, _esp_wifi_connected, _esp_wifi_ip, _esp_wifi_ssid, out, wlan0, nm>>

\* the sleep that ends an iteration is over: continue; the next iteration assigns
\* target, password, result and ip before it reads them
WifiWake ==
    /\ pc["wifi"] = "sleep"
    /\ wifi' = [NoWifi EXCEPT !.age = Min(31, wifi.age + wifi.nap), !.running = wifi.running]
    /\ Goto("wifi", "top")
    /\ UNCHANGED <<_lock, reply, ws, enc, NotWifi, _esp_wifi_connected, _esp_wifi_ip, _esp_wifi_ssid, out, wlan0, nm>>

\* password = _esp_ap_password
WifiReadPassword ==
    /\ pc["wifi"] = "read_pw"
    /\ wifi' = [wifi EXCEPT !.password = _esp_ap_password]
    /\ Goto("wifi", "query")
    /\ UNCHANGED <<_lock, reply, ws, enc, NotWifi, _esp_wifi_connected, _esp_wifi_ip, _esp_wifi_ssid, out, wlan0, nm>>

\* current_ssid = _get_wlan0_ssid(subprocess): on another network, disconnect first
WifiQuery(answered) ==
    /\ pc["wifi"] = "query"
    /\ LET current_ssid == GetWlan0Ssid(answered)
       IN  IF current_ssid # <<>> /\ current_ssid # wifi.target
           THEN Goto("wifi", "disconnect")
           ELSE Goto("wifi", "connect")
    /\ UNCHANGED <<_lock, reply, ws, enc, NotWifi, _esp_wifi_connected, _esp_wifi_ip, _esp_wifi_ssid, out, wifi, wlan0, nm>>

\* nmcli device disconnect wlan0 and time.sleep(2), or the call raises and is logged
WifiDisconnect(done) ==
    /\ pc["wifi"] = "disconnect"
    /\ IF done
       THEN /\ wlan0' = <<>>
            /\ wifi' = [wifi EXCEPT !.age = Min(31, wifi.age + 2)]
       ELSE UNCHANGED <<wlan0, wifi>>
    /\ Goto("wifi", "connect")
    /\ UNCHANGED <<_lock, reply, ws, enc, NotWifi, _esp_wifi_connected, _esp_wifi_ip, _esp_wifi_ssid, out, nm>>

\* subprocess.run(["nmcli", "device", "wifi", "connect", target, ...], timeout=30)
\* starts its nmcli child
WifiConnectStart ==
    /\ pc["wifi"] = "connect"
    /\ wifi' = [wifi EXCEPT !.running = wifi.running + 1]
    /\ Goto("wifi", "connecting")
    /\ UNCHANGED <<_lock, reply, ws, enc, NotWifi, _esp_wifi_connected, _esp_wifi_ip, _esp_wifi_ssid, out, wlan0, nm>>

\* a connect that returns on its timeout and leaves the nmcli child running
WifiConnectAbandon(raised) ==
    /\ pc["wifi"] = "connecting"
    /\ IF nm = "fail"
       THEN /\ wifi' = [wifi EXCEPT !.rc = IF raised THEN wifi.rc ELSE 1, !.nap = 10,
                                    !.running = IF raised THEN wifi.running ELSE wifi.running - 1]
            /\ Goto("wifi", "sleep")
            /\ UNCHANGED wlan0
       ELSE /\ wifi' = [wifi EXCEPT !.rc = 0, !.running = wifi.running - 1]
            /\ wlan0' = wifi.target
            /\ Goto("wifi", "dhcp")
    /\ UNCHANGED <<_lock, reply, ws, enc, NotWifi, _esp_wifi_connected, _esp_wifi_ip, _esp_wifi_ssid, out, nm>>

\* subprocess.run returns once its child has exited, or has been killed on the
\* timeout (raised): returncode 0 and wlan0 on target, or returncode != 0 or the
\* TimeoutExpired, and time.sleep(10)
WifiConnect(raised) ==
    /\ pc["wifi"] = "connecting"
    /\ IF nm = "fail"
       THEN /\ wifi' = [wifi EXCEPT !.rc = IF raised THEN wifi.rc ELSE 1, !.nap = 10,
                                    !.running = wifi.running - 1]
            /\ Goto("wifi", "sleep")
            /\ UNCHANGED wlan0
       ELSE /\ wifi' = [wifi EXCEPT !.rc = 0, !.running = wifi.running - 1]
            /\ wlan0' = wifi.target
            /\ Goto("wifi", "dhcp")
    /\ UNCHANGED <<_lock, reply, ws, enc, NotWifi, _esp_wifi_connected, _esp_wifi_ip, _esp_wifi_ssid, out, nm>>

\* a DHCP step that goes on to Connected whatever the address query gave
WifiDhcpAnyway ==
    /\ pc["wifi"] = "dhcp"
    /\ wifi' = [wifi EXCEPT !.ip = IF nm = "ok" /\ wlan0 = wifi.target THEN IpAddr ELSE <<>>,
                            !.age = Min(31, wifi.age + 3)]
    /\ Goto("wifi", "set_conn")
    /\ UNCHANGED <<_lock, reply, ws, enc, NotWifi, _esp_wifi_connected, _esp_wifi_ip, _esp_wifi_ssid, out, wlan0, nm>>

\* time.sleep(3), then the IP4.ADDRESS of the connection: "not ip" sleeps 5 and retries
WifiDhcp ==
    /\ pc["wifi"] = "dhcp"
    /\ IF nm = "ok" /\ wlan0 = wifi.target
       THEN /\ wifi' = [wifi EXCEPT !.ip = IpAddr, !.age = Min(31, wifi.age + 3)]
            /\ Goto("wifi", "set_conn")
       ELSE /\ wifi' = [wifi EXCEPT !.ip = <<>>, !.age = Min(31, wifi.age + 3), !.nap = 5]
            /\ Goto("wifi", "sleep")
    /\ UNCHANGED <<_lock, reply, ws, enc, NotWifi, _esp_wifi_connected, _esp_wifi_ip, _esp_wifi_ssid, out, wlan0, nm>>

\* _esp_wifi_connected = True
WifiSetConnected ==
    /\ pc["wifi"] = "set_conn"
    /\ _esp_wifi_connected' = TRUE
    /\ Goto("wifi", "set_ip")
    /\ UNCHANGED <<_lock, reply, ws, enc, NotWifi, _esp_wifi_ip, _esp_wifi_ssid, out, wifi, wlan0, nm>>

\* _esp_wifi_ip = ip
WifiSetIp ==
    /\ pc["wifi"] = "set_ip"
    /\ _esp_wifi_ip' = wifi.ip
    /\ Goto("wifi", "set_ssid")
    /\ UNCHANGED <<_lock, reply, ws, enc, NotWifi, _esp_wifi_connected, _esp_wifi_ssid, out, wifi, wlan0, nm>>

\* _esp_wifi_ssid = target
WifiSetSsid ==
    /\ pc["wifi"] = "set_ssid"
    /\ _esp_wifi_ssid' = wifi.target
    /\ Goto("wifi", "announce")
    /\ UNCHANGED <<_lock, reply, ws, enc, NotWifi, _esp_wifi_connected, _esp_wifi_ip, out, wifi, wlan0, nm>>

\* the WIFI line after connecting, "if _serial_port and _connected"
WifiAnnounce ==
    /\ pc["wifi"] = "announce"
    /\ IF ~LinkDown
       THEN /\ out' = [out EXCEPT !["wifi"] = WifiLine(wifi.ip)]
            /\ wifi' = [wifi EXCEPT !.site = "connect"]
            /\ Goto("wifi", "write")
       ELSE /\ Goto("wifi", "avahi")
            /\ UNCHANGED <<out, wifi>>
    /\ UNCHANGED <<_lock, reply, ws, enc, NotWifi, _esp_wifi_connected, _esp_wifi_ip, _esp_wifi_ssid, wlan0, nm>>

\* avahi-publish, found or not, then the time.sleep(10) that ends the iteration
WifiAvahi ==
    /\ pc["wifi"] = "avahi"
    /\ wifi' = Nap(10)
    /\ Goto("wifi", "sleep")
    /\ UNCHANGED <<_lock, reply, ws, enc, NotWifi, _esp_wifi_connected, _esp_wifi_ip, _esp_wifi_ssid, out, wlan0, nm>>

\* every step of the WiFi thread
WifiThread ==
    \/ WifiTop
    \/ \E answered \in BOOLEAN : WifiCheck(answered)
    \/ WifiWake
    \/ WifiReadPassword
    \/ \E answered \in BOOLEAN : WifiQuery(answered)
    \/ \E done \in BOOLEAN : WifiDisconnect(done)
    \/ WifiConnectStart
    \/ \E raised \in BOOLEAN : WifiConnect(raised)
    \/ WifiDhcp
    \/ WifiSetConnected
    \/ WifiSetIp
    \/ WifiSetSsid
    \/ WifiAnnounce
    \/ WifiAvahi
    \/ Write("wifi")

\* networks wlan0 can be moved to from outside: none, or the home network
OtherNets == {<<>>, <<"home">>}

\* the service with esp_wifi enabled, after the reader opened the port: nothing
\* received yet, the WiFi thread at the top of its loop
InitPair ==
    /\ _connected = TRUE
    /\ _serial_port = "open"
    /\ _messages = <<>>
    /\ _esp_ap_ssid = <<>>
    /\ _esp_ap_password = <<>>
    /\ _esp_wifi_connected = FALSE
    /\ _esp_wifi_ip = <<>>
    /\ _esp_wifi_ssid = <<>>
    /\ pc = [t \in Threads |->
               CASE t = "reader" -> "poll"
                 [] t = "send" -> "idle"
                 [] t = "rest" -> "idle"
                 [] t = "ws" -> "closed"
                 [] t = "wifi" -> "top"
                 [] OTHER -> "sleep"]
    /\ msg = NoMsg
    /\ img = NoImg
    /\ out = [t \in Threads |-> NoLine]
    /\ tracks = <<>>
    /\ cached_gps = GpsZero
    /\ wifi = NoWifi
    /\ device = "ok"
    /\ wlan0 \in OtherNets
    /\ nm = "ok"
    /\ wire = <<>>
    /\ chunks = <<>>
    /\ calls = <<>>
    /\ enc = NoEnc
    /\ _lock = "free"
    /\ reply = NoReply
    /\ ws = NoWs
    /\ ops = 0

\* the reader receives AP announcements, the WiFi thread pairs, the network and
\* the serial device change around them
NextPair ==
    \/ DeviceFail
    \/ ReaderFault
    \/ \E line \in {LineAp1, LineApBad} : ReaderReadLine(line)
    \/ ReaderAp
    \/ ReaderAppend
    \/ WifiThread
    \/ \E net \in OtherNets : WlanChange(net)
    \/ \E m \in {"ok", "noip", "fail"} : NmChange(m)

SpecPair == InitPair /\ [][NextPair]_vars

\* the WiFi thread is a thread of its own: it keeps being scheduled
FairSpecPair == SpecPair /\ WF_vars(WifiThread)

\* the service after 'AP:esp1,pw1' was received and logged, while the access point
\* is out of reach
InitRetry ==
    /\ _connected = TRUE
    /\ _serial_port = "open"
    /\ _messages = <<RxMsg(LineAp1)>>
    /\ _esp_ap_ssid = ApParts(LineAp1)[1]
    /\ _esp_ap_password = ApParts(LineAp1)[2]
    /\ _esp_wifi_connected = FALSE
    /\ _esp_wifi_ip = <<>>
    /\ _esp_wifi_ssid = <<>>
    /\ pc = [t \in Threads |->
               CASE t = "reader" -> "poll"
                 [] t = "send" -> "idle"
                 [] t = "rest" -> "idle"
                 [] t = "ws" -> "closed"
                 [] t = "wifi" -> "top"
                 [] OTHER -> "sleep"]
    /\ msg = NoMsg
    /\ img = NoImg
    /\ out = [t \in Threads |-> NoLine]
    /\ tracks = <<>>
    /\ cached_gps = GpsZero
    /\ wifi = NoWifi
    /\ device = "ok"
    /\ wlan0 \in OtherNets
    /\ nm \in {"fail", "noip"}
    /\ wire = <<>>
    /\ chunks = <<>>
    /\ calls = <<>>
    /\ enc = NoEnc
    /\ _lock = "free"
    /\ reply = NoReply
    /\ ws = NoWs
    /\ ops = 0

SpecRetry == InitRetry /\ [][NextPair]_vars

\* the WiFi thread keeps being scheduled
FairSpecRetry == SpecRetry /\ WF_vars(WifiThread)

\* an announcement with an empty ssid, "AP:,pw": parts = ["", "pw"]
LineApEmpty == <<"AP:", ",", "pw">>

\* pairing with every announcement the ESP32 firmware or a noisy link can deliver
NextPairAny ==
    \/ DeviceFail
    \/ ReaderFault
    \/ \E line \in {LineAp1, LineApEmpty} : ReaderReadLine(line)
    \/ ReaderAp
    \/ ReaderAppend
    \/ WifiThread
    \/ \E net \in OtherNets : WlanChange(net)
    \/ \E m \in {"ok", "noip", "fail"} : NmChange(m)

SpecPairAny == InitPair /\ [][NextPairAny]_vars

FairSpecPairAny == SpecPairAny /\ WF_vars(WifiThread)

\* the service with esp_wifi and telemetry_forward on, the port open: announcements
\* of two access points, malformed ones and commands arrive while the WiFi thread
\* pairs and the telemetry forwarder runs its cycles
NextCred ==
    \/ DeviceFail
    \/ \E line \in {LineAp1, LineAp2, LineApBad, LineRecStart} : ReaderReadLine(line)
    \/ ReaderDispatch
    \/ ReaderHttpDone
    \/ ReaderAp
    \/ ReaderAppend
    \/ TelTick
    \/ TelFetchFail
    \/ WifiThread

SpecCred == InitPair /\ [][NextCred]_vars

(***************************************************************************)
(* The commands of the ground station, one line each                       *)
(***************************************************************************)
LineRecStop == <<"CMD:", "REC_STOP">>
LineSetConf == <<"CMD:", "SET_CONF:", "0.5">>
LineSetImgsz == <<"CMD:", "SET_IMGSZ:", "640">>
LineSetModel == <<"CMD:", "SET_MODEL:", "yolo11n">>
\* arguments float() or int() raise on
LineSetConfBad == <<"CMD:", "SET_CONF:", "x">>
LineSetConfEmpty == <<"CMD:", "SET_CONF:">>
LineSetImgszBad == <<"CMD:", "SET_IMGSZ:", "x">>
LineSetImgszFrac == <<"CMD:", "SET_IMGSZ:", "0.5">>

CmdLines ==
    {LineRecStart, LineRecStop, LineSetConf, LineSetImgsz, LineSetModel, LineGetImg,
     LineSetConfBad, LineSetConfEmpty, LineSetImgszBad, LineSetImgszFrac, LineGetImgBad,
     LineGeneric}

\* the reader with its commands on a link that may fail, and /send writing meanwhile
NextCmd ==
    \/ DeviceFail
    \/ DeviceRecover
    \/ ReaderFault
    \/ \E line \in CmdLines : ReaderReadLine(line)
    \/ ReaderCommand
    \/ \E n \in {1, IMG_CHUNK_BYTES + 1} : ReaderImgFetchOk(n)
    \/ ReaderAppend
    \/ SendRequest(TextShort)
    \/ SendAppend
    \/ \E t \in {"reader", "send"} : Write(t)

SpecCmd == InitPair /\ [][NextCmd]_vars

\* nothing, and a line of every type
ReadLines == {<<>>, LineGeneric, LineTelEcho, LineRecStart, LineGetImg, LineUnknown, LineAp1}

\* the reader on an open port that may fail: lines of every type arrive
NextRead ==
    \/ DeviceFail
    \/ DeviceRecover
    \/ ReaderFault
    \/ \E line \in ReadLines : ReaderReadLine(line)
    \/ ReaderLine

SpecRead == InitPair /\ [][NextRead]_vars

\* the reader thread keeps being scheduled
FairSpecRead == SpecRead /\ WF_vars(ReaderLine)

\* the largest thumbnail of the runs of SpecChunk: 101 chunks, the last index 100
MaxThumbLen == 10001

\* thumbnails of one chunk, of ten and eleven chunks, and of a hundred and more
ThumbSizes ==
    {1, IMG_CHUNK_BYTES, 10 * IMG_CHUNK_BYTES, 10 * IMG_CHUNK_BYTES + 1, MaxThumbLen}

\* _send_track_image after the list of detections named a JPEG for the track
InitChunk ==
    /\ _connected = TRUE
    /\ _serial_port = "open"
    /\ _messages = <<>>
    /\ _esp_ap_ssid = <<>>
    /\ _esp_ap_password = <<>>
    /\ _esp_wifi_connected = FALSE
    /\ _esp_wifi_ip = <<>>
    /\ _esp_wifi_ssid = <<>>
    /\ pc = [t \in Threads |->
               CASE t = "reader" -> "img_fetch"
                 [] t = "send" -> "idle"
                 [] t = "rest" -> "idle"
                 [] t = "ws" -> "closed"
                 [] t = "wifi" -> "top"
                 [] OTHER -> "sleep"]
    /\ msg = RxMsg(LineGetImg)
    /\ img = NoImg
    /\ out = [t \in Threads |-> NoLine]
    /\ tracks = <<>>
    /\ cached_gps = GpsZero
    /\ wifi = NoWifi
    /\ device = "ok"
    /\ wlan0 \in OtherNets
    /\ nm = "ok"
    /\ wire = <<>>
    /\ chunks = <<>>
    /\ calls = << <<"detector", "/detections">>, <<"detector", "jpeg_url">> >>
    /\ enc = NoEnc
    /\ _lock = "free"
    /\ reply = NoReply
    /\ ws = NoWs
    /\ ops = 1

\* one transfer of a large thumbnail, chunk by chunk
NextChunk ==
    \/ \E n \in ThumbSizes : ReaderImgFetchOk(n)
    \/ ReaderImgLoop
    \/ WriteAll("reader")
    \/ ReaderImgSleep
    \/ ReaderAppend

SpecChunk == InitChunk /\ [][NextChunk]_vars

\* the cycles of the three forwarders with every outcome of their requests, from the
\* start of the service: the port not yet open, open, failing
TelCycle == TelStep
DetCycle == DetStep \/ DetMalformed
StsCycle ==
    \/ StsTick
    \/ \E v \in {StsDefaults, StsSample} : StsFetch(v)
    \/ StsMalformed
    \/ StsAppend
    \/ Write("sts")

NextCycle ==
    \/ Device
    \/ ReaderStart
    \/ TelCycle
    \/ DetCycle
    \/ StsCycle

SpecCycle == Init /\ [][NextCycle]_vars

\* every forwarder thread keeps being scheduled
FairSpecCycle ==
    SpecCycle /\ WF_vars(TelCycle) /\ WF_vars(DetCycle) /\ WF_vars(StsCycle)

\* the status forwarder with every combination of sources that answer and sources
\* that do not, while the telemetry forwarder writes its lines
NextSts ==
    \/ Device
    \/ ReaderStart
    \/ TelCycle
    \/ StsTick
    \/ \E thermal, capture, metrics, config \in BOOLEAN :
          StsFetch(StsValues(thermal, capture, metrics, config))
    \/ StsMalformed
    \/ StsAppend
    \/ Write("sts")

SpecSts == Init /\ [][NextSts]_vars

\* lines that match more than one rule, or a rule in the wrong place
LineCmdTel == <<"CMD:", "REC_START", "TEL:">>
LineApTel == <<"AP:", "esp1", ",", "pw1", "TEL:">>
LineMidCmd == <<"x", "CMD:", "REC_START">>
LineMidAp == <<"x", "AP:", "esp1", ",", "pw1">>
LineRssi == <<"hello", "RSSI:", "12">>

ClassLines ==
    {LineGeneric, LineTelEcho, LineRecStart, LineUnknown, LineAp1, LineApBad,
     LineCmdTel, LineApTel, LineMidCmd, LineMidAp, LineRssi}

\* the reader on an open port, receiving lines of every class
NextRx ==
    \/ \E line \in ClassLines : ReaderReadLine(line)
    \/ ReaderDispatch
    \/ ReaderHttpDone
    \/ ReaderAp
    \/ ReaderAppend

SpecRx == InitPair /\ [][NextRx]_vars

(***************************************************************************)
(* The wire lines, character by character                                  *)
(***************************************************************************)
\* a float of the program: v units of 10^-p; up is the side a value half way
\* between two printed values falls to (its binary representation decides)
F(v, p, up) == [v |-> v, p |-> p, up |-> up]

DigitChars == <<"0", "1", "2", "3", "4", "5", "6", "7", "8", "9">>

\* str(n) for n >= 0
RECURSIVE DigitsOf(_)
DigitsOf(n) ==
    IF n < 10 THEN <<DigitChars[n + 1]>>
    ELSE DigitsOf(n \div 10) \o <<DigitChars[(n % 10) + 1]>>

\* str(n) for an int n
IntStr(n) == IF n < 0 THEN <<"-">> \o DigitsOf(0 - n) ELSE DigitsOf(n)

\* s with zeros in front, d characters in all
RECURSIVE PadLeft(_, _)
PadLeft(s, d) == IF Len(s) >= d THEN s ELSE PadLeft(<<"0">> \o s, d)

\* |x| rounded to d decimals, in units of 10^-d
Rounded(x, d) ==
    LET k == Pow10(x.p - d)
        q == Abs(x.v) \div k
        r == Abs(x.v) % k
    IN  IF 2 * r > k \/ (2 * r = k /\ x.up) THEN q + 1 ELSE q

\* a fixed-point format that does not pad the decimals: 47.000005 as "47.5"
FormatFixedNoPad(x, d) ==
    LET m == Rounded(x, d)
    IN  (IF x.v < 0 THEN <<"-">> ELSE <<>>)
        \o DigitsOf(m \div Pow10(d))
        \o (IF d > 0 THEN <<".">> \o DigitsOf(m % Pow10(d)) ELSE <<>>)

\* f"{x:.{d}f}"
FormatFixed(x, d) ==
    LET m == Rounded(x, d)
    IN  (IF x.v < 0 THEN <<"-">> ELSE <<>>)
        \o DigitsOf(m \div Pow10(d))
        \o (IF d > 0 THEN <<".">> \o PadLeft(DigitsOf(m % Pow10(d)), d) ELSE <<>>)

\* ",".join(fields)
RECURSIVE Join(_)
Join(fields) ==
    IF Len(fields) = 0 THEN <<>>
    ELSE IF Len(fields) = 1 THEN fields[1]
    ELSE fields[1] \o <<",">> \o Join(Tail(fields))

\* get_telemetry_string(): f"TEL:{lat:.6f},{lon:.6f},{alt_rel:.1f},{groundspeed:.1f},
\* {heading},{voltage:.1f},{remaining},{fix_type},{satellites},{mode},{1 if armed else 0}"
TelEncode(r) ==
    <<"T", "E", "L", ":">> \o
    Join(<<FormatFixed(r.lat, 6), FormatFixed(r.lon, 6), FormatFixed(r.alt_rel, 1),
           FormatFixed(r.groundspeed, 1), IntStr(r.heading), FormatFixed(r.voltage, 1),
           IntStr(r.remaining), IntStr(r.fix_type), IntStr(r.satellites), r.mode,
           IF r.armed THEN <<"1">> ELSE <<"0">> >>)

\* det_line = f"DET:{cls},{conf:.2f},{tid},{lat:.6f},{lon:.6f},{alt:.1f}"
DetEncode(r) ==
    <<"D", "E", "T", ":">> \o
    Join(<<r.class_name, FormatFixed(r.confidence, 2), IntStr(r.track_id),
           FormatFixed(r.lat, 6), FormatFixed(r.lon, 6), FormatFixed(r.alt, 1)>>)

\* sts_line = f"STS:{rec_int},{fps:.1f},{tracks},{model},{conf:.2f},{imgsz},
\* {inf_ms:.0f},{cpu_temp:.1f}"
StsEncode(r) ==
    <<"S", "T", "S", ":">> \o
    Join(<<IF r.recording THEN <<"1">> ELSE <<"0">>, FormatFixed(r.fps, 1), IntStr(r.tracks),
           r.model, FormatFixed(r.conf, 2), IntStr(r.imgsz), FormatFixed(r.inf_ms, 0),
           FormatFixed(r.cpu_temp, 1)>>)

\* the text fields, as characters
ModeAuto == <<"A", "U", "T", "O">>
ModeNone == <<"N", "/", "A">>
ClassPerson == <<"p", "e", "r", "s", "o", "n">>
ClassUnknown == <<"u", "n", "k", "n", "o", "w", "n">>
ModelFile == <<"y", "o", "l", "o", ".", "p", "t">>

\* latitudes and longitudes in 1e-7 degrees, as _parse_structured leaves them:
\* half way between two printed values, rounding to zero from below, carrying into
\* the integer part
Lats ==
    {F(471234565, 7, TRUE), F(471234565, 7, FALSE), F(-4, 7, TRUE), F(99999996, 7, TRUE),
     F(0, 7, TRUE), F(-81234564, 7, FALSE)}

Lons == {F(81234564, 7, TRUE), F(-1799999999, 7, TRUE)}

\* the telemetry get_telemetry_string() reads from _structured_telemetry
TelRecords ==
    [lat : Lats, lon : Lons, alt_rel : {F(12345, 3, TRUE), F(-50, 3, TRUE)},
     groundspeed : {F(50, 1, TRUE)}, heading : {90}, voltage : {F(12650, 3, FALSE)},
     remaining : {-1, 80}, fix_type : {3}, satellites : {10}, mode : {ModeAuto, ModeNone},
     armed : BOOLEAN]

\* a track of GET /tracks with the cached gps
DetRecords ==
    [class_name : {ClassPerson, ClassUnknown}, confidence : {F(8725, 4, TRUE), F(0, 4, TRUE)},
     track_id : {0, 12}, lat : Lats, lon : {F(81234564, 7, TRUE)}, alt : {F(12345, 3, TRUE)}]

\* the values of one status cycle
StsRecords ==
    [recording : BOOLEAN, fps : {F(1495, 2, TRUE), F(0, 2, TRUE)}, tracks : {0, 3},
     model : {ModeNone, ModelFile}, conf : {F(500, 3, TRUE)}, imgsz : {640},
     inf_ms : {F(1250, 2, TRUE), F(1250, 2, FALSE), F(0, 2, TRUE)},
     cpu_temp : {F(-1000, 3, TRUE), F(45678, 3, TRUE)}]

\* everything but the encoded line
NotEnc == <<_connected, _serial_port, _messages, _esp_ap_ssid, _esp_ap_password,
            _esp_wifi_connected, _esp_wifi_ip, _esp_wifi_ssid, pc, msg, img, out, tracks,
            cached_gps, wifi, device, wlan0, nm, wire, chunks, calls, _lock, reply, ws, ops>>

\* GET /telemetry/lora builds the tel_string of the telemetry r
EncodeTel(r) ==
    /\ enc' = [kind |-> "TEL", rec |-> r, line |-> TelEncode(r)]
    /\ UNCHANGED NotEnc

\* the detection forwarder builds the det_line of the track r
EncodeDet(r) ==
    /\ enc' = [kind |-> "DET", rec |-> r, line |-> DetEncode(r)]
    /\ UNCHANGED NotEnc

\* the status forwarder builds the sts_line of the values r
EncodeSts(r) ==
    /\ enc' = [kind |-> "STS", rec |-> r, line |-> StsEncode(r)]
    /\ UNCHANGED NotEnc

\* records of every kind are encoded, one after the other
NextEnc ==
    \/ \E r \in TelRecords : EncodeTel(r)
    \/ \E r \in DetRecords : EncodeDet(r)
    \/ \E r \in StsRecords : EncodeSts(r)

SpecEnc == Init /\ [][NextEnc]_vars

(***************************************************************************)
(* The REST queries                                                        *)
(***************************************************************************)
\* get_status(): the JSON of GET /status
GetStatus ==
    [connected |-> _connected,
     total_messages |-> Len(_messages),
     esp_wifi |-> [connected |-> _esp_wifi_connected,
                   ssid |-> _esp_wifi_ssid,
                   ip |-> _esp_wifi_ip]]

\* get_esp_wifi(): the JSON of GET /esp_wifi
GetEspWifi ==
    [connected |-> _esp_wifi_connected, ssid |-> _esp_wifi_ssid, ip |-> _esp_wifi_ip]

\* a history query that returns the whole log
GetMessagesAll == _messages

\* get_messages(): _messages[-100:]
GetMessages ==
    IF Len(_messages) <= 100 THEN _messages
    ELSE SubSeq(_messages, Len(_messages) - 100 + 1, Len(_messages))

\* what a REST query and the WebSocket endpoint never touch
NotQuery == <<_connected, _serial_port, _messages, _esp_ap_ssid, _esp_ap_password,
              _esp_wifi_connected, _esp_wifi_ip, _esp_wifi_ssid, msg, img, out, tracks,
              cached_gps, wifi, device, wlan0, nm, wire, chunks, calls, enc, ops>>

\* a GET /status, GET /esp_wifi or GET /messages request reaches its handler
RestRequest(query) ==
    /\ pc["rest"] = "idle"
    /\ LoopFree("rest")
    /\ ops < MaxOps
    /\ ops' = ops + 1
    /\ Goto("rest", query)
    /\ UNCHANGED <<NotOps, _esp_wifi_connected, _esp_wifi_ip, _esp_wifi_ssid, out, wifi, wlan0,
                   nm, enc, _lock, reply, ws>>

\* get_status(): with _lock: return JSONResponse({...})
StatusQuery ==
    /\ pc["rest"] = "status"
    /\ WithLock("rest")
    /\ reply' = [kind |-> "status", body |-> GetStatus]
    /\ Goto("rest", "idle")
    /\ UNCHANGED <<NotQuery, ws>>

\* get_esp_wifi(): return JSONResponse({...}), no lock taken
EspWifiQuery ==
    /\ pc["rest"] = "esp_wifi"
    /\ reply' = [kind |-> "esp_wifi", body |-> GetEspWifi]
    /\ Goto("rest", "idle")
    /\ UNCHANGED <<NotQuery, _lock, ws>>

\* get_messages(): with _lock: return JSONResponse({"messages": _messages[-100:]})
MessagesQuery ==
    /\ pc["rest"] = "messages"
    /\ WithLock("rest")
    /\ reply' = [kind |-> "messages", body |-> GetMessages]
    /\ Goto("rest", "idle")
    /\ UNCHANGED <<NotQuery, ws>>

Query ==
    \/ \E query \in {"status", "esp_wifi", "messages"} : RestRequest(query)
    \/ StatusQuery
    \/ EspWifiQuery
    \/ MessagesQuery

\* log lengths of a session: empty, short, at and over the history limit, nearly full
LogSizes == {0, 2, 100, 101, _MAX_MSG - 1}

\* a state of a session: the port open, the link connected, n lines logged so far
InitQuery ==
    /\ _connected = TRUE
    /\ _serial_port = "open"
    /\ _messages \in {[i \in 1..n |-> RxMsg(LineNo(i))] : n \in LogSizes}
    /\ _esp_ap_ssid = <<>>
    /\ _esp_ap_password = <<>>
    /\ _esp_wifi_connected = FALSE
    /\ _esp_wifi_ip = <<>>
    /\ _esp_wifi_ssid = <<>>
    /\ pc = [t \in Threads |->
               CASE t = "reader" -> "poll"
                 [] t = "send" -> "idle"
                 [] t = "rest" -> "idle"
                 [] t = "ws" -> "closed"
                 [] t = "wifi" -> "top"
                 [] OTHER -> "sleep"]
    /\ msg = NoMsg
    /\ img = NoImg
    /\ out = [t \in Threads |-> NoLine]
    /\ tracks = <<>>
    /\ cached_gps = GpsZero
    /\ wifi = NoWifi
    /\ device = "ok"
    /\ wlan0 = <<>>
    /\ nm = "ok"
    /\ wire = <<>>
    /\ chunks = <<>>
    /\ calls = <<>>
    /\ enc = NoEnc
    /\ _lock = "free"
    /\ reply = NoReply
    /\ ws = NoWs
    /\ ops = 0

\* the session goes on while it is queried: lines and announcements arrive, the
\* telemetry forwarder transmits
NextQuery ==
    \/ Query
    \/ \E line \in {LineGeneric, LineAp1} : ReaderReadLine(line)
    \/ ReaderAp
    \/ ReaderAppend
    \/ TelTick
    \/ TelFetchOk(TelString)
    \/ TelAppend
    \/ WriteAll("tel")

SpecQuery == InitQuery /\ [][NextQuery]_vars

(***************************************************************************)
(* The WebSocket endpoint and the lock                                     *)
(***************************************************************************)
\* await ws.accept(); _ws_clients.append(ws); last_idx = 0
WsAccept ==
    /\ pc["ws"] = "closed"
    /\ LoopFree("ws")
    /\ ops < MaxOps
    /\ ops' = ops + 1
    /\ ws' = NoWs
    /\ Goto("ws", "copy")
    /\ UNCHANGED <<NotOps, _esp_wifi_connected, _esp_wifi_ip, _esp_wifi_ssid, out, wifi, wlan0,
                   nm, enc, _lock, reply>>

\* with _lock: new_msgs = _messages[last_idx:]; last_idx = len(_messages);
\* connected = _connected
WsCopy ==
    /\ pc["ws"] = "copy"
    /\ WithLock("ws")
    /\ ws' = [last_idx |-> Len(_messages), new_msgs |-> Drop(_messages, ws.last_idx),
              connected |-> _connected, pushed |-> ws.pushed]
    /\ Goto("ws", "send_json")
    /\ UNCHANGED <<NotQuery, reply>>

\* await ws.send_json(...): the messages event or the heartbeat goes out (pushed is
\* what this client was sent so far), or the client is gone (WebSocketDisconnect)
\* and the handler ends
WsSend(gone) ==
    /\ pc["ws"] = "send_json"
    /\ ws' = [ws EXCEPT !.new_msgs = <<>>, !.pushed = ws.pushed \o ws.new_msgs]
    /\ Goto("ws", IF gone THEN "closed" ELSE "ws_sleep")
    /\ UNCHANGED <<NotQuery, _lock, reply>>

\* await asyncio.sleep(0.5) is over
WsWake ==
    /\ pc["ws"] = "ws_sleep"
    /\ LoopFree("ws")
    /\ Goto("ws", "copy")
    /\ UNCHANGED <<NotQuery, _lock, reply, ws>>

Ws == WsAccept \/ WsCopy \/ (\E gone \in BOOLEAN : WsSend(gone)) \/ WsWake

\* the places at which a thread or handler is in front of a "with _lock:" block
LockSites(t) ==
    CASE t = "reader" -> {"connect", "append"}
      [] t \in {"tel", "det", "sts", "send"} -> {"append"}
      [] t = "rest" -> {"status", "messages"}
      [] t = "ws" -> {"copy"}
      [] OTHER -> {}

\* _lock.acquire() on entry to a with-block returns: t holds the lock, the block's
\* statements are still to run
LockAcquire(t) ==
    /\ _lock = "free"
    /\ pc[t] \in LockSites(t)
    /\ _lock' = t
    /\ UNCHANGED <<NotQuery, pc, reply, ws>>

\* a long session with a WebSocket client that has been sent the whole log so far
\* and is in its asyncio.sleep(0.5)
InitWs ==
    /\ _connected = TRUE
    /\ _serial_port = "open"
    /\ _messages = [i \in 1..(_MAX_MSG - 1) |-> RxMsg(LineNo(i))]
    /\ _esp_ap_ssid = <<>>
    /\ _esp_ap_password = <<>>
    /\ _esp_wifi_connected = FALSE
    /\ _esp_wifi_ip = <<>>
    /\ _esp_wifi_ssid = <<>>
    /\ pc = [t \in Threads |->
               CASE t = "reader" -> "poll"
                 [] t = "send" -> "idle"
                 [] t = "rest" -> "idle"
                 [] t = "ws" -> "ws_sleep"
                 [] t = "wifi" -> "top"
                 [] OTHER -> "sleep"]
    /\ msg = NoMsg
    /\ img = NoImg
    /\ out = [t \in Threads |-> NoLine]
    /\ tracks = <<>>
    /\ cached_gps = GpsZero
    /\ wifi = NoWifi
    /\ device = "ok"
    /\ wlan0 = <<>>
    /\ nm = "ok"
    /\ wire = <<>>
    /\ chunks = <<>>
    /\ calls = <<>>
    /\ enc = NoEnc
    /\ _lock = "free"
    /\ reply = NoReply
    /\ ws = [last_idx |-> _MAX_MSG - 1, new_msgs |-> <<>>, connected |-> TRUE,
             pushed |-> [i \in 1..(_MAX_MSG - 1) |-> RxMsg(LineNo(i))]]
    /\ ops = 0

\* lines arrive and are logged while the client is served, leaves or comes back
NextWs ==
    \/ \E line \in {LineGeneric, LineTelEcho} : ReaderReadLine(line)
    \/ ReaderAppend
    \/ Ws

SpecWs == InitWs /\ [][NextWs]_vars

\* the whole service but the commands and the pairing: reader, forwarders, /send,
\* the queries and a WebSocket client, every with-block entered in a step of its
\* own or at once
NextLock ==
    \/ Device
    \/ ReaderStart
    \/ ReaderFault
    \/ ReaderReadLine(LineGeneric)
    \/ ReaderAppend
    \/ TelStep
    \/ DetStep
    \/ StsStep
    \/ SendRequest(TextShort)
    \/ SendAppend
    \/ Write("send")
    \/ Query
    \/ Ws
    \/ \E t \in Threads : LockAcquire(t)

SpecLock == Init /\ [][NextLock]_vars

(***************************************************************************)
(* Properties                                                              *)
(***************************************************************************)
\* threads inside _serial_port.write
Writing == {t \in Threads : pc[t] = "writing"}

\* C1: at most one write to the serial port is in progress at any instant, and the
\* wire carries whole lines: after the first part of a line, the next bytes on the
\* wire are the rest of that line, not bytes of another writer.
C1_OneWriteAtATime ==
    /\ Cardinality(Writing) <= 1
    /\ (Len(wire) = 2 /\ wire[1].part = "head") => wire[2].src = wire[1].src

\* C2: the message log never holds more than _MAX_MSG entries, whoever appends.
C2_LogAtMostMaxMsg == Len(_messages) <= _MAX_MSG

\* C3: once a read has failed in the reader loop (the reader is in its except
\* clause), the status query reports the link as not connected.
C3_ReadFailureDisconnects ==
    pc["reader"] = "err_sleep" => ~GetStatus.connected

\* C4: once the reader has seen the transport fail, and while it is down, a forwarder
\* that wakes up skips its cycle: it stays asleep, with no request and no write.
C4_ForwardersSkipWhenDown ==
    [][(pc["reader"] = "err_sleep" /\ device = "failed")
         => \A t \in Forwarders : pc[t] = "sleep" => pc'[t] = "sleep"]_vars

\* the reader thread is inside _handle_command
CommandRunning ==
    pc["reader"] \in {"cmd", "http", "img_list", "img_fetch", "img_loop", "write",
                      "writing", "img_sleep"}

\* C5: while the command of a received line runs (and after it failed), the line's
\* message is already in the message log.
C5_LoggedBeforeDispatch ==
    CommandRunning => \E i \in 1..Len(_messages) : _messages[i] = msg

\* C6: while a collaborator call or an image transfer of a command is in progress,
\* the reader can still receive a line the device has for it.
C6_ReaderReceivesDuringCommand ==
    (CommandRunning /\ device = "ok" /\ ops < MaxOps) => ENABLED ReaderReadLine(LineGeneric)

\* C7: every line handed to _serial_port.write is at most LORA_MAX_PAYLOAD bytes long.
C7_LinesFitPayload ==
    \A t \in Threads : pc[t] \in {"write", "writing"} => out[t].len <= LORA_MAX_PAYLOAD

\* the least q with q * c >= n
CeilDiv(n, c) == CHOOSE q \in 0..n : q * c >= n /\ (q = 0 \/ (q - 1) * c < n)

\* the value of a hex digit, and the bytes of a hex string
HexValue(ch) == CHOOSE v \in 0..15 : HexDigits[v + 1] = ch
Unhex(h) ==
    [i \in 1..(Len(h) \div 2) |-> HexValue(h[2 * i - 1]) * 16 + HexValue(h[2 * i])]

\* the payloads of IMG lines, decoded and concatenated in the order given
RECURSIVE Reassemble(_)
Reassemble(lines) ==
    IF lines = <<>> THEN <<>> ELSE Unhex(lines[1].body[3]) \o Reassemble(Tail(lines))

\* the image transfer has run its loop to the end
TransferComplete == pc["reader"] = "append" /\ img.c = img.total_chunks

\* C8: the IMG lines written so far carry the indices 0, 1, ... in order and all
\* declare ceil(S / C) as their total; their payloads, decoded and concatenated,
\* are the compressed bytes up to there; a transfer that ran to its end has written
\* exactly ceil(S / C) lines, which reassemble to all S bytes.
C8_ChunksReassemble ==
    LET data == ImageData(img.len)
        total == CeilDiv(img.len, IMG_CHUNK_BYTES)
    IN  /\ \A k \in 1..Len(chunks) :
               /\ chunks[k].kind = "IMG"
               /\ chunks[k].body[1] = k - 1
               /\ chunks[k].body[2] = total
        /\ Reassemble(chunks) = SubSeq(data, 1, Min(Len(chunks) * IMG_CHUNK_BYTES, img.len))
        /\ TransferComplete => (Len(chunks) = total /\ Reassemble(chunks) = data)

\* a transfer of three chunks, the last one short, has run to its end
C8_Witness ==
    /\ TransferComplete
    /\ Len(chunks) = 3
    /\ img.len % IMG_CHUNK_BYTES # 0

(***************************************************************************)
(* Pairing                                                                 *)
(***************************************************************************)
\* the messages received so far, the one in the reader's hands included
Received == {_messages[i] : i \in 1..Len(_messages)} \cup {msg}

\* an AP: message announced this ssid
Announced(ssid) ==
    \E m \in Received :
        /\ m.type = "ap_info"
        /\ Len(ApParts(m.data)) >= 2
        /\ ApParts(m.data)[1] = ssid

\* the thread is associating: it chose its target and has not finished the attempt
Associating ==
    pc["wifi"] \in {"read_pw", "query", "disconnect", "connect", "connecting", "dhcp"}

\* association is tried only with an ssid that an AP: message announced
AssociatingHasCredentials == Associating => wifi.target # <<>> /\ Announced(wifi.target)

\* _esp_wifi_connected becomes True only in the step after an attempt that returned 0
\* and gave an address
ConnectedAfterSuccess ==
    ~_esp_wifi_connected /\ _esp_wifi_connected'
        => /\ pc["wifi"] = "set_conn"
           /\ wifi.rc = 0
           /\ wifi.ip # <<>>
           /\ Announced(wifi.target)

\* C9 as stated: pairing moves to Associating only after an AP: message populated
\* the credentials, to Connected only after an association with them succeeded, and
\* once an AP: message is delivered and association succeeds (nmcli returns 0),
\* Connected is eventually reached
C9_ConnectedOnceAssociated ==
    /\ []AssociatingHasCredentials
    /\ [][ConnectedAfterSuccess]_vars
    /\ (_esp_ap_ssid # <<>> /\ nm \in {"ok", "noip"}) ~> (_esp_wifi_connected \/ nm = "fail")

\* C9 amended: pairing moves to Associating only after an AP: message populated the
\* credentials, to Connected only after an association with them succeeded and gave
\* an address, and once an AP: message is delivered and association succeeds and
\* yields an address, Connected is eventually reached
C9_ConnectedOnceAddressed ==
    /\ []AssociatingHasCredentials
    /\ [][ConnectedAfterSuccess]_vars
    /\ (_esp_ap_ssid # <<>> /\ nm = "ok") ~> (_esp_wifi_connected \/ nm # "ok")

\* Connected to the announced AP, with its address, the announcement in the log
C9_Witness ==
    /\ _esp_wifi_connected
    /\ _esp_wifi_ssid = _esp_ap_ssid
    /\ _esp_wifi_ip = IpAddr
    /\ \E i \in 1..Len(_messages) : _messages[i].type = "ap_info"

\* a drift check made while wlan0 is not on _esp_wifi_ssid leaves Connected
CheckDetectsDrift ==
    pc["wifi"] = "check" /\ pc'["wifi"] # "check" /\ wlan0 # _esp_wifi_ssid
        => ~_esp_wifi_connected' /\ _esp_wifi_ip' = <<>>

\* while Connected every iteration makes the drift check before it sleeps
CheckEveryInterval ==
    /\ pc["wifi"] = "top" /\ _esp_wifi_connected /\ pc'["wifi"] # "top"
           => pc'["wifi"] \in {"write", "check"}
    /\ pc["wifi"] \in {"write", "writing"} /\ wifi.site = "resend"
           => pc'["wifi"] \in {"write", "writing", "check"}

\* C10: while Connected, wlan0 being moved to another network or to none is detected
\* by the next drift check, one per interval: the thread leaves Connected and, with
\* the credentials it has, runs association again
C10_DriftDetected ==
    /\ [][CheckDetectsDrift /\ CheckEveryInterval]_vars
    /\ (_esp_wifi_connected /\ wlan0 # _esp_wifi_ssid)
           ~> (~_esp_wifi_connected \/ wlan0 = _esp_wifi_ssid)
    /\ (~_esp_wifi_connected /\ _esp_wifi_ssid # <<>>)
           ~> (pc["wifi"] = "connect" \/ _esp_wifi_connected)

\* a drift was detected and the thread associates again
C10_Witness ==
    /\ ~_esp_wifi_connected
    /\ _esp_wifi_ssid # <<>>
    /\ wlan0 # _esp_wifi_ssid
    /\ pc["wifi"] = "connect"

\* the pairing state of a thread that is not connected and has no ssid to try
AwaitingCredentials == ~_esp_wifi_connected /\ _esp_ap_ssid = <<>>

\* C11: once AP credentials are cached the pairing never returns to awaiting
\* credentials: the cached ssid is never emptied, and after a failed association,
\* a missing address or a drift the thread takes the association path with it
C11_NeverBackToAwaiting ==
    [][/\ _esp_ap_ssid # <<>> => ~AwaitingCredentials'
       /\ pc["wifi"] = "top" /\ ~_esp_wifi_connected /\ _esp_ap_ssid # <<>>
              /\ pc'["wifi"] # "top" => pc'["wifi"] = "read_pw"]_vars

(***************************************************************************)
(* Unknown commands                                                        *)
(***************************************************************************)
\* the names and prefixes the dispatcher knows
KnownCommand(cmd) ==
    \/ cmd \in {<<"REC_START">>, <<"REC_STOP">>}
    \/ \E prefix \in {"SET_CONF:", "SET_IMGSZ:", "SET_MODEL:", "GET_IMG:"} : StartsWith(cmd, prefix)

\* the reader holds a command the dispatcher does not know
HoldsUnknown == msg.type = "command" /\ ~KnownCommand(CmdOf(msg.data))

\* link state and pairing state
LinkAndPairing ==
    <<_connected, _serial_port, _esp_ap_ssid, _esp_ap_password,
      _esp_wifi_connected, _esp_wifi_ip, _esp_wifi_ssid>>

\* C12: an unknown command makes no collaborator call and no serial write, leaves
\* link state and pairing state as they are, and is appended to the log
C12_UnknownCommandIgnored ==
    [][/\ HoldsUnknown /\ pc["reader"] = "cmd" /\ pc'["reader"] # "cmd"
           => /\ pc'["reader"] = "append"
              /\ UNCHANGED <<calls, out, wire, chunks, LinkAndPairing, _messages>>
       /\ HoldsUnknown /\ pc["reader"] = "append" /\ pc'["reader"] # "append"
           => /\ _messages' = AppendRx(_messages, msg)
              /\ UNCHANGED <<calls, out, wire, LinkAndPairing>>]_vars

\* the unknown command went through the dispatcher and is in the log
C12_Witness ==
    /\ \E i \in 1..Len(_messages) :
           _messages[i].type = "command" /\ ~KnownCommand(CmdOf(_messages[i].data))
    /\ pc["reader"] = "poll"
    /\ wire = <<>>

(***************************************************************************)
(* Opening the serial device                                               *)
(***************************************************************************)
\* the reader is in the loop that opens the device
Opening == pc["reader"] \in {"open", "retry"}

\* C13: a failed open is followed by the backoff and another attempt, without
\* limit, and if the device becomes openable and stays so the link gets connected
C13_OpenRetriedForever ==
    /\ [][/\ pc["reader"] = "open" /\ pc'["reader"] # "open"
              => pc'["reader"] = IF device = "ok" THEN "connect" ELSE "retry"
          /\ pc["reader"] = "retry" /\ pc'["reader"] # "retry" => pc'["reader"] = "open"]_vars
    /\ [](Opening => ENABLED ReaderStart)
    /\ (Opening /\ device = "ok") ~> (_connected \/ device # "ok")
    /\ (<>[](device = "ok")) => <>_connected

\* an open failed, the reader waits the backoff, and the device is there now
C13_Witness == pc["reader"] = "retry" /\ device = "ok" /\ ~_connected

(***************************************************************************)
(* Forwarder ticks while the link is not connected                         *)
(***************************************************************************)
\* the link state is not Connected: no port object yet, or _connected not set
NotConnected == _serial_port = "None" \/ _connected = FALSE

\* the tick of any of the three forwarders
ForwarderTick == TelTick \/ DetTick \/ StsTick

\* C14: a tick at which the link is not connected changes nothing (no request, no
\* line, no write, no log entry); the forwarder stays waiting for its next tick, and
\* it leaves the wait only on a tick at which the link is connected, to fetch
C14_TickSkipsWhenNotConnected ==
    /\ [](NotConnected =>
             /\ ~ENABLED <<ForwarderTick>>_vars
             /\ \A t \in Forwarders : pc[t] = "sleep" /\ out[t] = NoLine)
    /\ [][\A t \in Forwarders :
             pc[t] = "sleep" /\ pc'[t] # "sleep" => ~NotConnected /\ pc'[t] = "fetch"]_vars

\* the port is open, _connected is not set yet, and the forwarders tick
C14_Witness ==
    /\ _serial_port = "open"
    /\ ~_connected
    /\ ENABLED ForwarderTick
    /\ \A t \in Forwarders : pc[t] = "sleep"
    /\ _messages = <<>> /\ wire = <<>>

(***************************************************************************)
(* Faults and stalls stay in their own thread                              *)
(***************************************************************************)
\* the places of a forwarder's loop and of the reader's loops
ForwarderLabels == {"sleep", "fetch", "next", "write", "writing", "append"}

ReaderLabels ==
    {"open", "retry", "connect", "poll", "err_sleep", "cmd", "http", "img_list", "img_fetch",
     "img_loop", "img_sleep", "write", "writing", "ap_ssid", "ap_pw", "append"}

\* the next step of each thread
StepOf(t) ==
    CASE t = "tel" -> TelStep
      [] t = "det" -> DetStep
      [] t = "sts" -> StsStep
      [] t = "reader" -> ReaderStep

\* a thread that is about to start an operation the model has no budget left for
OutOfBudget(t) ==
    /\ ops >= MaxOps
    /\ \/ t \in Forwarders /\ pc[t] = "sleep"
       \/ t = "reader" /\ pc[t] = "poll"

\* C15: whatever fault or stall another forwarder or an image transfer is in, the
\* reader and every forwarder are still in their loops and can take their next
\* step; the telemetry forwarder finishes the cycle it started while the detection
\* and status forwarders and the reader stall
C15_FaultsStayLocal ==
    /\ [](/\ \A t \in Forwarders : pc[t] \in ForwarderLabels
          /\ pc["reader"] \in ReaderLabels)
    /\ [](\A t \in Forwarders \cup {"reader"} : OutOfBudget(t) \/ ENABLED StepOf(t))
    /\ (pc["tel"] # "sleep") ~> (pc["tel"] = "sleep")

\* the detection forwarder is stalled in the middle of a write on a device that
\* failed, while the telemetry forwarder runs its cycle
C15_Witness ==
    /\ pc["det"] = "writing"
    /\ device = "failed"
    /\ pc["tel"] = "fetch"

(***************************************************************************)
(* One association at a time, and the backoff floor                        *)
(***************************************************************************)
\* C16: at most one association attempt is in progress at any time: an nmcli
\* connect child runs only while the thread is inside its subprocess.run call,
\* and never more than one
C16_OneAssociationAtATime ==
    /\ wifi.running \in {0, 1}
    /\ wifi.running = 1 <=> pc["wifi"] = "connecting"

\* a second attempt is in progress, after an earlier one that got connected
C16_Witness ==
    /\ pc["wifi"] = "connecting"
    /\ wifi.running = 1
    /\ _esp_wifi_ssid # <<>>
    /\ ~_esp_wifi_connected

\* the order of the places within one iteration of the loop
WifiRank ==
    [l \in {"top", "read_pw", "query", "disconnect", "connect", "connecting", "dhcp",
            "set_conn", "set_ip", "set_ssid", "announce", "write", "writing", "check",
            "avahi", "sleep"} |->
       CASE l = "top" -> 0 [] l = "read_pw" -> 1 [] l = "query" -> 2 [] l = "disconnect" -> 3
         [] l = "connect" -> 4 [] l = "connecting" -> 5 [] l = "dhcp" -> 6 [] l = "set_conn" -> 7
         [] l = "set_ip" -> 8 [] l = "set_ssid" -> 9 [] l = "announce" -> 10 [] l = "write" -> 11
         [] l = "writing" -> 12 [] l = "check" -> 13 [] l = "avahi" -> 14 [] l = "sleep" -> 15]

\* the shortest sleep of the loop, in seconds
BackoffFloor == 5

\* C17: every iteration of the pairing loop sleeps before the next one: the thread
\* only moves forward within an iteration, the only way back to the top is through
\* a sleep of at least the floor, so no two attempts and no two state changes of
\* different iterations are closer than that
C17_EveryIterationSleeps ==
    [][pc'["wifi"] # pc["wifi"] =>
          \/ /\ pc["wifi"] = "sleep"
             /\ pc'["wifi"] = "top"
             /\ wifi.nap >= BackoffFloor
          \/ /\ pc'["wifi"] # "top"
             /\ WifiRank[pc'["wifi"]] > WifiRank[pc["wifi"]]]_vars

\* the thread sleeps after an association that got no address
C17_Witness ==
    /\ pc["wifi"] = "sleep"
    /\ wifi.rc = 0
    /\ wifi.ip = <<>>
    /\ wifi.nap = 5
    /\ wifi.target # <<>>

(***************************************************************************)
(* Classification                                                          *)
(***************************************************************************)
\* the class the rules give, taken in order
ExpectedType(line) ==
    IF \E i \in 1..Len(line) : line[i] = "TEL:" THEN "telemetry_rx"
    ELSE IF line # <<>> /\ line[1] = "CMD:" THEN "command"
    ELSE IF line # <<>> /\ line[1] = "AP:" THEN "ap_info"
    ELSE "generic"

\* the reader is in the dispatcher
InDispatcher == pc["reader"] \in {"cmd", "http", "img_list", "img_fetch", "img_loop", "img_sleep"}

\* C18: every received line gets the class of the first rule it matches (TEL:
\* anywhere, then the CMD: prefix, then the AP: prefix, else generic); a line goes
\* to the dispatcher exactly when its class is command, and the credentials are
\* written only for a line of class ap_info
C18_ClassifiedInOrder ==
    /\ [](\A m \in Received : m.direction = "rx" => m.type = ExpectedType(m.data))
    /\ [](InDispatcher => msg.type = "command")
    /\ [][/\ msg = NoMsg /\ msg' # NoMsg
              => (pc'["reader"] = "cmd" <=> ExpectedType(msg'.data) = "command")
          /\ <<_esp_ap_ssid, _esp_ap_password>>' # <<_esp_ap_ssid, _esp_ap_password>>
              => ExpectedType(msg.data) = "ap_info"]_vars

\* a line with the CMD: prefix and the telemetry marker was logged as telemetry_rx,
\* with no dispatch
C18_Witness ==
    /\ \E i \in 1..Len(_messages) :
           _messages[i].data = LineCmdTel /\ _messages[i].type = "telemetry_rx"
    /\ calls = <<>>
    /\ _esp_ap_ssid = <<>>

(***************************************************************************)
(* The detection forwarder sends every active track in every cycle         *)
(***************************************************************************)
\* the detection thread takes a step of its loop over the tracks
DetMoves == pc'["det"] # pc["det"] \/ tracks' # tracks

\* the loop over the snapshot: a track with track_id >= 0 gets its line built and
\* handed to write(), sent before or not; a track with track_id < 0 gets none; a
\* written line is logged and the loop goes on with the next track
DetLoopSendsEach ==
    /\ pc["det"] = "next" /\ tracks # <<>> /\ DetMoves
          => IF Head(tracks).track_id >= 0
             THEN /\ out'["det"] = DetLine(Head(tracks), cached_gps)
                  /\ pc'["det"] = "write"
                  /\ tracks' = tracks
             ELSE /\ tracks' = Tail(tracks)
                  /\ out'["det"] = NoLine
    /\ pc["det"] = "append" /\ DetMoves
          => /\ _messages' = Append(_messages, TxEntry(DetLine(Head(tracks), cached_gps).body,
                                                       "detection"))
             /\ tracks' = Tail(tracks)
             /\ pc'["det"] = "next"

\* the cycle ends only when every track of the snapshot has been gone through
DetCycleEndsWhenDone ==
    pc["det"] \in {"next", "write", "writing", "append"} /\ pc'["det"] = "sleep"
        => pc["det"] = "next" /\ tracks = <<>>

\* the cycle ends when every track has been gone through, or when a write raised
DetCycleEndsWhenDoneOrFailed ==
    pc["det"] \in {"next", "write", "writing", "append"} /\ pc'["det"] = "sleep"
        => \/ pc["det"] = "next" /\ tracks = <<>>
           \/ pc["det"] \in {"write", "writing"} /\ device = "failed"

\* every line handed to write() reaches the wire
DetWriteGoesThrough ==
    pc["det"] \in {"write", "writing"} /\ DetMoves => pc'["det"] \in {"writing", "append"}

FieldsOf(line) == SplitOn(Drop(line, 4), ",")

DigitValue(ch) == CHOOSE i \in 0..9 : DigitChars[i + 1] = ch

\* the value of a string of digits
RECURSIVE ParseDigits(_)
ParseDigits(s) ==
    IF s = <<>> THEN 0
    ELSE 10 * ParseDigits(SubSeq(s, 1, Len(s) - 1)) + DigitValue(s[Len(s)])

\* an integer field
ParseInt(s) == IF s[1] = "-" THEN 0 - ParseDigits(Tail(s)) ELSE ParseDigits(s)

\* a decimal field: its value v in units of 10^-d, d the decimals it shows
ParseFixed(s) ==
    LET unsigned == IF s[1] = "-" THEN Tail(s) ELSE s
        parts == SplitOn(unsigned, ".")
        d == IF Len(parts) = 2 THEN Len(parts[2]) ELSE 0
        m == ParseDigits(parts[1]) * Pow10(d) + (IF d > 0 THEN ParseDigits(parts[2]) ELSE 0)
    IN  [v |-> IF s[1] = "-" THEN 0 - m ELSE m, d |-> d]

\* the decoded field shows d decimals and is within half a unit of the last one
Near(x, field, d) ==
    LET got == ParseFixed(field)
        k == Pow10(x.p - d)
    IN  got.d = d /\ 2 * Abs(got.v * k - x.v) <= k

Flag(field) == field = <<"1">>

TelRecovered(r, f) ==
    /\ Len(f) = 11
    /\ Near(r.lat, f[1], 6) /\ Near(r.lon, f[2], 6) /\ Near(r.alt_rel, f[3], 1)
    /\ Near(r.groundspeed, f[4], 1) /\ ParseInt(f[5]) = r.heading
    /\ Near(r.voltage, f[6], 1) /\ ParseInt(f[7]) = r.remaining
    /\ ParseInt(f[8]) = r.fix_type /\ ParseInt(f[9]) = r.satellites
    /\ f[10] = r.mode /\ Flag(f[11]) = r.armed

DetRecovered(r, f) ==
    /\ Len(f) = 6
    /\ f[1] = r.class_name /\ Near(r.confidence, f[2], 2) /\ ParseInt(f[3]) = r.track_id
    /\ Near(r.lat, f[4], 6) /\ Near(r.lon, f[5], 6) /\ Near(r.alt, f[6], 1)

StsRecovered(r, f) ==
    /\ Len(f) = 8
    /\ Flag(f[1]) = r.recording /\ Near(r.fps, f[2], 1) /\ ParseInt(f[3]) = r.tracks
    /\ f[4] = r.model /\ Near(r.conf, f[5], 2) /\ ParseInt(f[6]) = r.imgsz
    /\ Near(r.inf_ms, f[7], 0) /\ Near(r.cpu_temp, f[8], 1)

\* C20: decoding the line a TEL, DET or STS record was encoded to gives every
\* field back, in the documented order, lat and lon within half of 1e-6, altitude
\* within half of 0.1, the other decimals within half of their last place
C20_EncodeDecodeRecovers ==
    /\ enc.kind = "TEL" => SubSeq(enc.line, 1, 4) = <<"T", "E", "L", ":">>
                             /\ TelRecovered(enc.rec, FieldsOf(enc.line))
    /\ enc.kind = "DET" => SubSeq(enc.line, 1, 4) = <<"D", "E", "T", ":">>
                             /\ DetRecovered(enc.rec, FieldsOf(enc.line))
    /\ enc.kind = "STS" => SubSeq(enc.line, 1, 4) = <<"S", "T", "S", ":">>
                             /\ StsRecovered(enc.rec, FieldsOf(enc.line))

\* a latitude that sits half way between two printed values and a small negative
\* altitude went through the TEL line
C20_Witness ==
    /\ enc.kind = "TEL"
    /\ enc.rec.lat = F(471234565, 7, TRUE)
    /\ enc.rec.alt_rel = F(-50, 3, TRUE)
    /\ SubSeq(enc.line, 1, 14) = <<"T", "E", "L", ":", "4", "7", ".", "1", "2", "3", "4", "5", "7", ",">>

(***************************************************************************)
(* The queries are read-only                                               *)
(***************************************************************************)
\* the handler of a REST query returns its response
QueryAnswered == pc["rest"] # "idle" /\ pc'["rest"] = "idle"

\* the last at most 100 entries of a log, oldest first
LastHundred(log) ==
    [i \in 1..(IF Len(log) < 100 THEN Len(log) ELSE 100) |->
        log[(IF Len(log) < 100 THEN 0 ELSE Len(log) - 100) + i]]

ValidAp(m) == m.type = "ap_info" /\ Len(SplitOn(Drop(m.data, 1), ",")) >= 2

\* its ssid and password fields
ApFields(m) == <<SplitOn(Drop(m.data, 1), ",")[1], SplitOn(Drop(m.data, 1), ",")[2]>>

\* C22: the ssid and the password an association attempt is made with were announced
\* together, in one AP: message
C22_PairFromOneAnnouncement ==
    pc["wifi"] \in {"connect", "connecting"}
        => \E m \in Received : ValidAp(m) /\ ApFields(m) = <<wifi.target, wifi.password>>

\* the fields of the most recent valid announcement of a log, none: empty strings
RECURSIVE LastAnnounced(_)
LastAnnounced(log) ==
    IF log = <<>> THEN <<<<>>, <<>>>>
    ELSE IF ValidAp(log[Len(log)]) THEN ApFields(log[Len(log)])
    ELSE LastAnnounced(SubSeq(log, 1, Len(log) - 1))

\* the credentials change only in the reader's two assignments, made for a valid
\* announcement, each to its field
CredentialsSetByAnnouncement ==
    /\ _esp_ap_ssid' # _esp_ap_ssid
          => /\ pc["reader"] = "ap_ssid" /\ ValidAp(msg)
             /\ _esp_ap_ssid' = ApFields(msg)[1]
             /\ _esp_ap_password' = _esp_ap_password
    /\ _esp_ap_password' # _esp_ap_password
          => /\ pc["reader"] = "ap_pw" /\ ValidAp(msg)
             /\ _esp_ap_password' = ApFields(msg)[2]
             /\ _esp_ap_ssid' = _esp_ap_ssid

\* C25: the cached credentials change only when an AP: announcement with at least
\* two fields is received, and once the reader is done with a line they are the
\* fields of the most recent such announcement; every other line, a malformed
\* announcement, a command and every step of a forwarder or of the pairing thread
\* leave them as they are
C25_CredentialsLastWriterWins ==
    /\ [][CredentialsSetByAnnouncement]_vars
    /\ [](pc["reader"] = "poll"
             => <<_esp_ap_ssid, _esp_ap_password>> = LastAnnounced(_messages))
    /\ [](pc["reader"] = "append"
             => <<_esp_ap_ssid, _esp_ap_password>> = LastAnnounced(Append(_messages, msg)))

\* a second announcement replaced the first
C25_Witness ==
    /\ Len(_messages) = 2
    /\ _messages[1].data = LineAp1
    /\ _messages[2].data = LineAp2
    /\ pc["reader"] = "poll"
    /\ <<_esp_ap_ssid, _esp_ap_password>> = <<<<"esp2">>, <<"pw2">>>>

(***************************************************************************)
(* What a status query sees of the pairing                                 *)
(***************************************************************************)
\* C23: in every state a status query can observe, pairing connected = true comes
\* with a non-empty assigned address and with the ssid of the association just
\* made as the recorded ssid
C23_ConnectedHasAddress ==
    GetStatus.esp_wifi.connected
        => /\ GetStatus.esp_wifi.ip # <<>>
           /\ GetStatus.esp_wifi.ssid # <<>>
           /\ pc["wifi"] \in {"set_ip", "set_ssid"} => GetStatus.esp_wifi.ssid = wifi.target

(***************************************************************************)
(* Eviction from the message log                                           *)
(***************************************************************************)
\* an entry is inserted into a log that is full: the insertion overflows it
Overflows == _messages' # _messages /\ Len(_messages) >= _MAX_MSG

\* log is what is left of the log before and the entry inserted when the oldest
\* floor(_MAX_MSG / 2) entries are removed
NewestAfterEviction(before, log) ==
    LET kept == Len(before) + 1 - (_MAX_MSG \div 2)
    IN  /\ Len(log) = kept
        /\ \A i \in 1..(kept - 1) : log[i] = before[(_MAX_MSG \div 2) + i]
        /\ log[kept].direction \in {"rx", "tx"}

\* C24: an insertion that overflows the log removes exactly the oldest
\* floor(_MAX_MSG / 2) entries in the same step; the entries left are the newest
\* ones in their order, the inserted entry last
C24_OverflowEvictsOldestHalf ==
    [][Overflows => NewestAfterEviction(_messages, _messages')]_vars

(***************************************************************************)
(* No I/O under the lock                                                   *)
(***************************************************************************)
\* the places at which a thread is in a serial read or write, a collaborator
\* request, a network-manager call, a send to a WebSocket client or a sleep
IoLabels ==
    {"open", "retry", "poll", "err_sleep", "http", "img_list", "img_fetch", "img_sleep",
     "write", "writing", "sleep", "fetch", "query", "disconnect", "connecting", "dhcp",
     "check", "avahi", "send_json", "ws_sleep"}

\* C26: a thread or handler that is in a serial write or read, a collaborator
\* request, a network-manager call or a sleep does not hold the lock: the holder is
\* at a with-block, whose steps touch memory only, and its next step releases it
C26_NoIoUnderLock ==
    /\ [](\A t \in Threads :
             /\ pc[t] \in IoLabels => _lock # t
             /\ _lock = t => pc[t] \in LockSites(t))
    /\ [][\A t \in Threads :
             _lock = t /\ pc'[t] # pc[t] => _lock' = "free" /\ UNCHANGED <<wire, calls>>]_vars

\* the WebSocket handler holds the lock for its copy while the reader, with a line
\* to append, waits for it
C26_Witness ==
    /\ _lock = "ws"
    /\ pc["ws"] = "copy"
    /\ pc["reader"] = "append"
    /\ ~ENABLED ReaderAppend

(***************************************************************************)
(* The WIFI line is sent again and again                                   *)
(***************************************************************************)
\* pairing Connected and the serial link connected, the device working
PairedAndLinked == _esp_wifi_connected /\ _serial_port = "open" /\ _connected /\ device = "ok"

\* an iteration that starts more than 30 s after the last WIFI line sends one first,
\* with the recorded address
ResendWhenDue ==
    pc["wifi"] = "top" /\ pc'["wifi"] # "top" /\ PairedAndLinked /\ wifi.age > 30
        => /\ pc'["wifi"] = "write"
           /\ out'["wifi"].body = <<"WIFI:">> \o _esp_wifi_ip \o <<"dc-detect", "8080">>

FaultCleared == nm = "ok"

\* an attempt ended without Connected: nmcli failed, or no address came
AttemptFailed == pc["wifi"] = "sleep" /\ wifi.target # <<>> /\ wifi.ip = <<>>

\* C28: a failed attempt is followed by its backoff and another attempt, without
\* limit; with credentials cached, if from some point on attempts succeed and yield
\* an address, Connected is reached, and reached again after every later loss
C28_RetriedUntilConnected ==
    /\ [][AttemptFailed /\ pc'["wifi"] # "sleep" => pc'["wifi"] = "top"]_vars
    /\ [][pc["wifi"] = "top" /\ ~_esp_wifi_connected /\ _esp_ap_ssid # <<>> /\ pc'["wifi"] # "top"
             => pc'["wifi"] = "read_pw"]_vars
    /\ (<>[](FaultCleared /\ _esp_ap_ssid # <<>>)) => []<>_esp_wifi_connected

\* an attempt failed, the fault has cleared since, and the thread waits its backoff
\* with the credentials cached
C28_Witness ==
    /\ AttemptFailed
    /\ wifi.nap = 10
    /\ FaultCleared
    /\ _esp_ap_ssid # <<>>
    /\ ~_esp_wifi_connected

(***************************************************************************)
(* Commands and their collaborators                                        *)
(***************************************************************************)
IsPrefix(s, t) == Len(s) <= Len(t) /\ SubSeq(t, 1, Len(s)) = s

\* the requests a recognised command stands for, each to the command's collaborator
Requests(line) ==
    CASE line = LineRecStart -> << <<"capture", "/recording/start">> >>
      [] line = LineRecStop -> << <<"capture", "/recording/stop">> >>
      [] line = LineSetConf -> << <<"detector", "/config">> >>
      [] line = LineSetImgsz -> << <<"detector", "/config">> >>
      [] line = LineSetModel -> << <<"detector", "/model">> >>
      [] line = LineGetImg -> << <<"detector", "/detections">>, <<"detector", "jpeg_url">> >>
      [] OTHER -> <<>>

WellFormed ==
    {LineRecStart, LineRecStop, LineSetConf, LineSetImgsz, LineSetModel, LineGetImg}

\* C29: the requests the reader makes for a line are those of its command, in order
\* and none twice, all to the command's own collaborator (capture for recording,
\* detector for configuration, model and thumbnail); a recognised command has made
\* its request once it is past the dispatch; a request that got no answer is not
\* sent again
C29_OwnCollaboratorOnce ==
    /\ [](/\ IsPrefix(calls, Requests(msg.data))
          /\ msg.data \in WellFormed /\ pc["reader"] # "cmd" => calls # <<>>
          /\ msg.data \in WellFormed \ {LineGetImg} /\ pc["reader"] = "append"
                => calls = Requests(msg.data))
    /\ [][pc["reader"] = "http" /\ pc'["reader"] # "http"
             => calls' = calls /\ pc'["reader"] = "append"]_vars
    /\ [][pc["reader"] = "img_fetch" /\ pc'["reader"] # "img_fetch"
             => calls' = calls /\ pc'["reader"] \in {"append", "img_loop"}]_vars

\* the thumbnail of track 7 was fetched with two requests to the detector and its
\* second chunk is being built, after REC_START went to the capture service
C29_Witness ==
    /\ msg.data = LineGetImg
    /\ calls = Requests(LineGetImg)
    /\ pc["reader"] = "write"
    /\ img.c = 1
    /\ Len(_messages) >= 1
    /\ _messages[1].data = LineRecStart

(***************************************************************************)
(* Commands with an argument that does not parse                           *)
(***************************************************************************)
Malformed ==
    {LineSetConfBad, LineSetConfEmpty, LineSetImgszBad, LineSetImgszFrac, LineGetImgBad}

\* C30: a SET_CONF, SET_IMGSZ or GET_IMG whose argument does not parse makes the
\* reader call no collaborator and write nothing to the serial port; the reader goes
\* from the dispatch straight to logging the line as a command and on to the next
\* read, and the command is never dispatched again
C30_MalformedDiscarded ==
    /\ [](msg.data \in Malformed
            => /\ pc["reader"] \in {"cmd", "append"}
               /\ calls = <<>>
               /\ out["reader"] = NoLine
               /\ chunks = <<>>)
    /\ [][msg.data \in Malformed /\ pc'["reader"] # pc["reader"]
            => /\ calls' = <<>>
               /\ wire' = wire
               /\ out' = out
               /\ \/ pc["reader"] = "cmd" /\ pc'["reader"] = "append" /\ _messages' = _messages
                  \/ /\ pc["reader"] = "append" /\ pc'["reader"] = "poll"
                     /\ _messages' = AppendRx(_messages, msg)
                     /\ msg.type = "command"
                     /\ msg' = NoMsg]_vars

\* GET_IMG:x was logged and dropped, and the command after it is being carried out
C30_Witness ==
    /\ Len(_messages) = 1
    /\ _messages[1].data = LineGetImgBad
    /\ msg.data = LineRecStop
    /\ pc["reader"] = "http"
    /\ wire = <<>>

(***************************************************************************)
(* One rx entry for every line read                                        *)
(***************************************************************************)
\* the reader holds a line it has read and not yet logged
HoldsLine == msg # NoMsg

\* C31: a non-empty line read from the port is held by the reader until it is
\* appended to the log as one rx entry with the line's text, and appended it is,
\* whatever its type and however its command ends; nothing else adds an rx entry;
\* after the entry the reader is back at its read
C31_OneRxEntryPerLine ==
    /\ [][HoldsLine /\ msg' # msg
            => /\ msg' = NoMsg
               /\ msg.direction = "rx"
               /\ _messages' = AppendRx(_messages, msg)
               /\ pc'["reader"] = "poll"]_vars
    /\ [][(_messages' # _messages /\ _messages'[Len(_messages')].direction = "rx")
            => HoldsLine /\ msg' = NoMsg /\ _messages'[Len(_messages')] = msg]_vars
    /\ [][~HoldsLine /\ msg' # msg
            => pc["reader"] = "poll" /\ msg'.data # <<>> /\ pc'["reader"] # "poll"]_vars
    /\ [](HoldsLine => pc["reader"] \notin {"poll", "err_sleep", "open", "retry", "connect"})
    /\ HoldsLine ~> (~HoldsLine /\ pc["reader"] = "poll")

\* GET_IMG:7 made both its requests and the second one failed: the line is about to
\* be logged
C31_Witness ==
    /\ msg.data = LineGetImg
    /\ pc["reader"] = "append"
    /\ Len(calls) = 2
    /\ img = NoImg
    /\ wire = <<>>

(***************************************************************************)
(* A thumbnail that is absent                                              *)
(***************************************************************************)
\* the transfer leaves the list without asking for a JPEG, or the fetch without an
\* image
ListGaveNone == pc["reader"] = "img_list" /\ pc'["reader"] # "img_list" /\ calls' = calls
FetchGaveNone == pc["reader"] = "img_fetch" /\ pc'["reader"] # "img_fetch" /\ img' = NoImg

\* the transfer of the command in hand ended with no image
Aborted == msg.data = LineGetImg /\ pc["reader"] = "append" /\ img = NoImg

\* C32: when the list names no JPEG for the track, or the list or the JPEG cannot be
\* fetched, or the JPEG does not decode, the transfer ends there: no IMG line is built
\* or written, the reader goes on to log the command and read again, and every
\* forwarder is where it was and can take its next step
C32_AbsentThumbnailAborts ==
    /\ [][ListGaveNone \/ FetchGaveNone
            => /\ pc'["reader"] = "append"
               /\ chunks' = <<>>
               /\ out' = out
               /\ wire' = wire
               /\ \A t \in Forwarders : pc'[t] = pc[t]]_vars
    /\ [](Aborted
            => /\ chunks = <<>>
               /\ out["reader"] = NoLine
               /\ ENABLED ReaderAppend
               /\ \A t \in Forwarders :
                     pc[t] \in ForwarderLabels /\ (OutOfBudget(t) \/ ENABLED StepOf(t)))
    /\ [][Aborted /\ pc'["reader"] # "append" => pc'["reader"] = "poll"]_vars

\* the JPEG of track 7 could not be fetched while the telemetry forwarder is writing
C32_Witness ==
    /\ Aborted
    /\ Len(calls) = 2
    /\ pc["tel"] = "write"

(***************************************************************************)
(* Order and pacing of the chunks of a transfer                            *)
(***************************************************************************)
\* the reader hands a line to write()
StartsWrite == pc["reader"] # "write" /\ pc'["reader"] = "write"

\* C33: the line handed to write() carries the index that follows the chunks written
\* so far, 0 for the first, and no index is handed over twice; after a chunk is
\* written the reader is in its time.sleep(0.3), and only the end of that sleep moves
\* the transfer to the next index; a transfer that ran to its end wrote the indices
\* 0 .. total-1, once each
C33_ChunksInOrderPaced ==
    /\ [](\A k \in 1..Len(chunks) : chunks[k].body[1] = k - 1)
    /\ [](pc["reader"] \in {"write", "writing"}
            => out["reader"].body[1] = Len(chunks) /\ img.c = Len(chunks))
    /\ [](pc["reader"] = "img_sleep" => Len(chunks) = img.c + 1)
    /\ [][StartsWrite => pc["reader"] = "img_loop" /\ img.c < img.total_chunks]_vars
    /\ [][Len(chunks') > Len(chunks)
            => Len(chunks') = Len(chunks) + 1 /\ pc'["reader"] = "img_sleep"]_vars
    /\ [][(pc["reader"] # "img_fetch" /\ pc["reader"] # "append" /\ img'.c # img.c)
            => pc["reader"] = "img_sleep" /\ img'.c = img.c + 1 /\ pc'["reader"] = "img_loop"]_vars
    /\ [](TransferComplete => Len(chunks) = img.total_chunks)

\* the third chunk of a transfer is handed to write(), two sleeps after the first
C33_Witness ==
    /\ pc["reader"] = "write"
    /\ Len(chunks) = 2
    /\ out["reader"].body[1] = 2
    /\ img.total_chunks = 3

(***************************************************************************)
(* IMG lines and the payload limit of the link                             *)
(***************************************************************************)
\* the bytes of f"IMG:{c}:{total}:{hex}\n", counted from the line's fields
ImgBytes(line) ==
    Len("IMG:") + Len(ToString(line.body[1])) + 1 + Len(ToString(line.body[2])) + 1
        + Len(line.body[3]) + 1

\* C34: every IMG line the transfer builds, with its header, at most
\* 2 * IMG_CHUNK_BYTES hex digits and the newline, is at most LORA_MAX_PAYLOAD bytes
\* long, whatever the index and the total
C34_ImgLineFitsPayload ==
    LET line == out["reader"]
    IN  /\ line.kind = "IMG"
            => /\ Len(line.body[3]) <= 2 * IMG_CHUNK_BYTES
               /\ line.len = ImgBytes(line)
               /\ ImgBytes(line) <= LORA_MAX_PAYLOAD
        /\ \A k \in 1..Len(chunks) : ImgBytes(chunks[k]) <= LORA_MAX_PAYLOAD

\* the last chunk of a thumbnail of 101 chunks, index 100, is handed to write()
C34_Witness ==
    /\ pc["reader"] = "write"
    /\ out["reader"].body[1] = 100
    /\ out["reader"].body[2] = 101
    /\ Len(chunks) = 100

(***************************************************************************)
(* Forwarders sleep between cycles and outlive collaborator faults         *)
(***************************************************************************)
CycleOf(t) ==
    CASE t = "tel" -> TelCycle
      [] t = "det" -> DetCycle
      [] t = "sts" -> StsCycle

\* C35: a forwarder is always in its loop and can take its next step; a cycle starts
\* only when the sleep of the interval is over, and a cycle that started ends in that
\* sleep again, whether it sent its lines, the request failed, the answer was not
\* usable or the write raised; a wake-up that finds the link down goes back to sleep
C35_SleepsBetweenCycles ==
    /\ [](\A t \in Forwarders :
             pc[t] \in ForwarderLabels /\ (OutOfBudget(t) \/ ENABLED CycleOf(t)))
    /\ [][\A t \in Forwarders :
             /\ (pc'[t] = "fetch" /\ pc[t] # "fetch") => (pc[t] = "sleep" /\ ~LinkDown)
             /\ (pc[t] = "sleep" /\ LinkDown) => pc'[t] = "sleep"]_vars
    /\ \A t \in Forwarders : (pc[t] # "sleep") ~> (pc[t] = "sleep")

\* the telemetry or the status forwarder is back in its sleep after a cycle that
\* logged nothing, while the detection forwarder is in the middle of its cycle
C35_Witness ==
    /\ pc["sts"] = "sleep"
    /\ pc["det"] = "next"
    /\ ops = MaxOps
    /\ _messages = <<>>
    /\ device = "ok"
    /\ pc["tel"] = "sleep"

(***************************************************************************)
(* The status line when sources are unavailable                            *)
(***************************************************************************)
\* the status forwarder ends a cycle
StsCycleEnds == pc["sts"] # "sleep" /\ pc'["sts"] = "sleep"

\* the status line is handed to write()
StsLineBuilt == pc["sts"] = "fetch" /\ pc'["sts"] = "write"

\* every value of the line is its default or what its source answered, and the
\* temperature is -1.0 or the reading
DefaultsOrAnswers(line) ==
    /\ line.kind = "STS"
    /\ line.body[2] \in {0, 1}
    /\ line.body[3] \in {0, StsSample.fps}
    /\ line.body[4] \in {0, StsSample.tracks}
    /\ line.body[5] \in {"N/A", StsSample.model}
    /\ line.body[6] \in {50, StsSample.conf}
    /\ line.body[7] \in {640, StsSample.imgsz}
    /\ line.body[8] \in {0, StsSample.inf_ms}
    /\ line.body[9] \in {-10, StsSample.cpu_temp}

C37_LeavesConnectedOnlyOnDrift ==
    [][(_esp_wifi_connected /\ ~_esp_wifi_connected') => wlan0 # _esp_wifi_ssid]_vars

(***************************************************************************)
(* What a WebSocket client is pushed                                       *)
(***************************************************************************)
IsSuffix(s, t) == Len(s) <= Len(t) /\ SubSeq(t, Len(t) - Len(s) + 1, Len(t)) = s

\* the handler takes its copy of the new messages
CopyTaken == pc["ws"] = "copy" /\ pc'["ws"] = "send_json"

\* C38: whenever the handler has taken its copy, what the client was sent so far
\* followed by the copied batch ends with the whole log as it is, in log order: no
\* message of the log is left out of the pushes, whether or not the reader evicted
\* the older half in between
C38_EveryMessagePushed ==
    [][CopyTaken => IsSuffix(_messages', ws'.pushed \o ws'.new_msgs)]_vars

(***************************************************************************)
(* POST /send with the JSONResponse it returns                             *)
(***************************************************************************)
\* the answers of send_message
SendNotConnected == [kind |-> "send", body |-> [code |-> 503, error |-> "not connected"]]
SendFailed == [kind |-> "send", body |-> [code |-> 500, error |-> "str(exc)"]]
SendSent(text) == [kind |-> "send", body |-> [code |-> 200, status |-> "sent", text |-> text]]

\* a handler that hands the payload to write without the link test
SendMessageUnchecked(req) ==
    /\ pc["send"] = "idle"
    /\ LoopFree("send")
    /\ ops < MaxOps
    /\ out' = [out EXCEPT !["send"] = TextLine(req)]
    /\ Goto("send", "write")
    /\ ops' = ops + 1
    /\ UNCHANGED <<_lock, reply, ws, enc, _connected, _serial_port, _messages, _esp_ap_ssid, _esp_ap_password,
                   _esp_wifi_connected, _esp_wifi_ip, _esp_wifi_ssid, msg, img,
                   tracks, cached_gps, wifi, device, wlan0, nm, wire, chunks, calls>>

\* send_message(req): "if _serial_port is None or not _connected" returns 503
\* "not connected", else the payload is handed to _serial_port.write
SendMessage(req) ==
    /\ pc["send"] = "idle"
    /\ LoopFree("send")
    /\ LinkDown \/ ops < MaxOps
    /\ IF LinkDown
       THEN /\ reply' = SendNotConnected
            /\ UNCHANGED <<pc, ops, out>>
       ELSE /\ out' = [out EXCEPT !["send"] = TextLine(req)]
            /\ Goto("send", "write")
            /\ ops' = ops + 1
            /\ UNCHANGED reply
    /\ UNCHANGED <<_lock, ws, enc, _connected, _serial_port, _messages, _esp_ap_ssid, _esp_ap_password,
                   _esp_wifi_connected, _esp_wifi_ip, _esp_wifi_ssid, msg, img,
                   tracks, cached_gps, wifi, device, wlan0, nm, wire, chunks, calls>>

\* write() raises: "except Exception as exc" returns 500 with str(exc)
SendMessageError ==
    /\ pc["send"] \in {"write", "writing"}
    /\ device = "failed"
    /\ out' = [out EXCEPT !["send"] = NoLine]
    /\ reply' = SendFailed
    /\ Goto("send", AfterWriteError("send"))
    /\ UNCHANGED <<_lock, ws, enc, _connected, _serial_port, _messages, _esp_ap_ssid, _esp_ap_password,
                   _esp_wifi_connected, _esp_wifi_ip, _esp_wifi_ssid, msg, img,
                   tracks, cached_gps, wifi, device, wlan0, nm, wire, chunks, calls, ops>>

\* with _lock: _messages.append({"direction": "tx", "data": req.text, "ts": ts});
\* return {"status": "sent", "text": req.text}
SendMessageSent ==
    /\ pc["send"] = "append"
    /\ WithLock("send")
    /\ _messages' = AppendTx(_messages, TxEntry(out["send"].body, "generic"))
    /\ reply' = SendSent(out["send"].body)
    /\ out' = [out EXCEPT !["send"] = NoLine]
    /\ Goto("send", "idle")
    /\ UNCHANGED <<ws, enc, _connected, _serial_port, _esp_ap_ssid, _esp_ap_password,
                   _esp_wifi_connected, _esp_wifi_ip, _esp_wifi_ssid, msg, img,
                   tracks, cached_gps, wifi, device, wlan0, nm, wire, chunks, calls, ops>>

\* the service from its start with clients of POST /send and the telemetry
\* forwarder: requests arrive before and after the link is up, and the device may
\* fail under a write
NextSend ==
    \/ Device
    \/ ReaderStart
    \/ TelCycle
    \/ \E req \in {TextShort, TextLong} : SendMessage(req)
    \/ WriteAll("send")
    \/ WritePart("send")
    \/ WriteRest("send")
    \/ SendMessageError
    \/ SendMessageSent

SpecSend == Init /\ [][NextSend]_vars

\* the step is the last of a write of the /send handler that returned
SendWriteReturns == pc["send"] \in {"write", "writing"} /\ pc'["send"] = "append"

\* the step appends a tx entry that carries no "type" key
SendEntryAppended ==
    /\ Len(_messages') = Len(_messages) + 1
    /\ _messages'[Len(_messages')].direction = "tx"
    /\ _messages'[Len(_messages')].type = "generic"

\* C39: POST /send while the link is not connected is answered 503 "not connected"
\* with nothing written and nothing appended; while connected the handler writes
\* exactly one line and then appends exactly one tx entry with the request's text
\* and answers "sent"; a write that raises is answered 500 and appends no tx entry
C39_SendAnswers ==
    /\ [][(pc["send"] = "idle" /\ pc'["send"] # "idle")
             => (~LinkDown /\ pc'["send"] = "write" /\ reply' = reply
                 /\ wire' = wire /\ _messages' = _messages)]_vars
    /\ [][(pc["send"] = "idle" /\ reply' # reply)
             => (LinkDown /\ reply' = SendNotConnected /\ pc'["send"] = "idle"
                 /\ wire' = wire /\ _messages' = _messages /\ out' = out)]_vars
    /\ [][SendWriteReturns
             => (/\ wire'[Len(wire')].src = "send"
                 /\ wire'[Len(wire')].part \in {"line", "tail"}
                 /\ _messages' = _messages
                 /\ reply' = reply)]_vars
    /\ [][(pc["send"] = "append" /\ pc'["send"] # "append")
             => (/\ pc'["send"] = "idle"
                 /\ _messages' = Append(_messages, TxEntry(out["send"].body, "generic"))
                 /\ reply' = SendSent(out["send"].body)
                 /\ wire' = wire)]_vars
    /\ [][(pc["send"] \in {"write", "writing"} /\ pc'["send"] \notin {"write", "writing", "append"})
             => (/\ pc'["send"] = "idle"
                 /\ reply' = SendFailed
                 /\ _messages' = _messages
                 /\ wire' = wire)]_vars
    /\ [][SendEntryAppended => pc["send"] = "append"]_vars
    /\ [][(pc["send"] \notin {"write", "writing"} /\ wire' # wire)
             => wire'[Len(wire')].src # "send"]_vars

\* one request was written and logged, and the next one failed in its write: it
\* was answered 500 and left no entry of its own
C39_Witness ==
    /\ reply = SendFailed
    /\ pc["send"] = "idle"
    /\ Len(_messages) = 1
    /\ _messages[1] = TxEntry(<<TextShort.text>>, "generic")
    /\ ops = MaxOps

(***************************************************************************)
(* The log entries of the forwarders                                       *)
(***************************************************************************)
\* the "type" each forwarder gives its log entries
TypeOf(t) ==
    CASE t = "tel" -> "telemetry"
      [] t = "det" -> "detection"
      [] t = "sts" -> "status"

\* the forwarder is between handing its line to write() and logging it
AtWrite(t) == pc[t] \in {"write", "writing"}

\* the step appends a tx entry of the forwarder's type
ForwarderEntryAppended(t) ==
    /\ Len(_messages') = Len(_messages) + 1
    /\ _messages'[Len(_messages')].direction = "tx"
    /\ _messages'[Len(_messages')].type = TypeOf(t)

\* C40: a tx entry of type telemetry, detection or status enters the log only after
\* its line was written to the serial port: a forwarder reaches its append only by a
\* write that returned, with the line it handed to write(); a write that raises leads
\* to the sleep with the log unchanged; and each write that returned is followed by
\* exactly one appended tx entry with the text of the written line
C40_LoggedOnlyAfterWritten ==
    /\ [][\A t \in Forwarders :
             (pc[t] # "append" /\ pc'[t] = "append")
                => (/\ AtWrite(t)
                    /\ wire' # <<>>
                    /\ wire'[Len(wire')].src = t
                    /\ wire'[Len(wire')].part \in {"line", "tail"}
                    /\ out'[t] = out[t]
                    /\ out[t] # NoLine
                    /\ _messages' = _messages)]_vars
    /\ [][\A t \in Forwarders :
             (AtWrite(t) /\ ~AtWrite(t)' /\ pc'[t] # "append")
                => (/\ pc'[t] = "sleep"
                    /\ wire' = wire
                    /\ _messages' = _messages)]_vars
    /\ [][\A t \in Forwarders :
             (pc[t] = "append" /\ pc'[t] # "append")
                => _messages' = Append(_messages, TxEntry(out[t].body, TypeOf(t)))]_vars
    /\ [][\A t \in Forwarders :
             (pc[t] = "append" /\ pc'[t] = "append")
                => (out'[t] = out[t] /\ ~ForwarderEntryAppended(t))]_vars
    /\ [][\A t \in Forwarders : ForwarderEntryAppended(t) => pc[t] = "append"]_vars

\* the telemetry line was written and logged, and the write of the status line
\* raised after its first part went out: the status forwarder is asleep again
\* and the log holds no status entry
C40_Witness ==
    /\ \E i \in 1..Len(_messages) : _messages[i] = TxEntry(TelString.body, "telemetry")
    /\ wire # <<>>
    /\ wire[Len(wire)] = Piece("sts", "head")
    /\ pc["sts"] = "sleep"
    /\ ~ \E i \in 1..Len(_messages) : _messages[i].type = "status"

====
